---- MODULE Spec2Model ----
(***************************************************************************)
(* Model of the mainframehub core: the two stale-while-revalidate caches   *)
(* (SessionCacheService, PRCacheService), the bulk discovery pass          *)
(* (DiscoveryService.discover), and the workflows of PRService over the    *)
(* GitHubService shadow store, the clone directories and the tmux sessions.*)
(*                                                                         *)
(* Promises of port calls are the records of `ops`.  A promise reaction    *)
(* (an awaiting continuation, a then/catch/finally callback) is one        *)
(* action; calls of the public methods are actions that may run between    *)
(* any two reactions, as on the JavaScript event loop.                     *)
(***************************************************************************)
EXTENDS Integers, Sequences, FiniteSets, TLC

\* ----------------------------------------------------------------- bounds
\* Number of refresh operations (port calls) a behaviour may start.
MaxOps == 3

\* Number of tmux sessions.
MaxSessions == 2

\* Number of sessions whose working directory changes during one discover() pass.
MaxDirChanged == 1

\* Number of review requests of the repository in one behaviour.
MaxPRs == 2

\* Length of the texts (identifiers, task texts, messages, remotes) that are
\* passed to the entry points and to the text functions of the services.
MaxLen == 3

\* Number of letters of the long word of a task text.
LongLen == 70
\* The texts over an alphabet, as sequences of characters.
Texts(alphabet) == UNION {[1..n -> alphabet] : n \in 0..MaxLen}

\* GitHubService.nextMockNumber after construction.
MockBase == 10000

\* ttlMs of each service, in clock ticks.
SessionTtl == 2
PRTtl == 2

Users == {"u1", "u2"}
SKey == "sessions"

\* Repository identifiers, branch names (differing in case only) and review
\* request numbers the ports may return.
Repos == {"o/a", "o/b"}
Branches == {"feat", "Feat"}
PRNumbers == {1, 2}
SessionIds == 1..MaxSessions

VARIABLES
  instance,            \* the service object the clients of this behaviour call
  scCache,             \* SessionCacheService.cache
  scUpdateInProgress,  \* SessionCacheService.updateInProgress
  scUpdatePromise,     \* SessionCacheService.updatePromise (0 = null)
  pcCache,             \* PRCacheService.cache (Map username -> CacheEntry)
  pcUpdateInProgress,  \* PRCacheService.updateInProgress (Map username -> promise, 0 = no key)
  ops,                 \* the promises returned by discovery.discover() / github.listPRs()
  resolved,            \* the calls whose promise settled in the last step
  lastCall,            \* the method or callback that ran in the last step
  tmuxSessions,        \* the sessions tmux holds
  gitState,            \* what git.getInfo(workingDir) yields for each session now
  dPc,                 \* where the discover() pass is
  dSessions,           \* discover(): sessions
  dSeen,               \* discover(): what getInfo returned in the repository-collecting loop
  dRepos,              \* discover(): repos
  dPending,            \* discover(): the listPRs calls not yet settled
  dPrMap,              \* discover(): prMap
  listCalls,           \* github.listPRs calls issued, per repository
  dStates,             \* discover(): the states returned
  dListed,             \* what github.listPRs(repo) returned to the running call
  dOne,                \* discoverOne(): the state returned
  dFailed,             \* discover(): the repositories logged as "Failed to fetch PRs"
  mockWrites,          \* GitHubService.mockWrites
  mockPRs,             \* GitHubService.mockPRs.get(config.repoName)
  nextMockNumber,      \* GitHubService.nextMockNumber
  remotePRs,           \* the review requests of config.repoName on GitHub
  remoteBranches,      \* the branches of the origin repository
  dirs,                \* the directories under config.clonesDir
  sessionName,         \* the number N in the name sessionPrefix+N of each tmux session
  clock,               \* Date.now()
  wf,                  \* the running invocations of the PRService workflows
  lastReturn,          \* what the workflow call that finished in the last step returned or threw
  returned,            \* what the successful workflow calls returned, less the requests torn down since
  request,             \* a call of an entry point or of a text function: its name and arguments
  response,            \* what that call did or returned
  sockets,             \* the WebSocket connections: ws.readyState and the handler serving them
  activeSessions,      \* websocket.ts: activeSessions (Map ws -> TerminalSession), by process
  terminalSessions,    \* terminal handler: activeSessions (Map sessionId -> TerminalSession)
  attachProcs,         \* the tmux attach processes spawned by the two handlers
  termOut              \* what the handler that ran in the last step wrote or sent

cacheVars == <<instance, scCache, scUpdateInProgress, scUpdatePromise, pcCache,
               pcUpdateInProgress, ops, resolved, lastCall>>

discVars == <<tmuxSessions, gitState, dPc, dSessions, dSeen, dRepos, dPending,
              dPrMap, listCalls, dStates, dListed, dOne, dFailed>>

provVars == <<mockWrites, mockPRs, nextMockNumber, remotePRs, remoteBranches, dirs,
              sessionName, clock, wf, lastReturn, returned>>

callVars == <<request, response>>

termVars == <<sockets, activeSessions, terminalSessions, attachProcs, termOut>>

vars == <<cacheVars, discVars, provVars, callVars, termVars>>

\* What the actions of one component leave alone.
notCache == <<discVars, provVars, callVars, termVars>>
notDiscovery == <<cacheVars, provVars, callVars, termVars>>
notProvision == <<cacheVars, callVars, termVars>>
notCall == <<cacheVars, discVars, provVars, termVars>>
notTerminal == <<cacheVars, discVars, provVars, callVars>>

\* No call of an entry point or text function is modelled.
NoRequest == [fn |-> "none"]
NoResponse == [status |-> "none"]
CallIdle == request = NoRequest /\ response = NoResponse
\* The state of a discovery pass: all of discVars but tmux and the directories.
passVars == <<dPc, dSessions, dSeen, dRepos, dPending, dPrMap, listCalls, dStates,
              dListed, dOne, dFailed>>

OpIds == 1..MaxOps

\* A CacheEntry.  The two times are kept as distances from the clock:
\*   age  = Date.now() - timestamp,  idle = Date.now() - lastInteraction,
\* counted up to the service's TTL (the code only compares them with ttlMs).
NoEntry == [present |-> FALSE, data |-> 0, age |-> 0, idle |-> 0]
Entry(d, age, idle) == [present |-> TRUE, data |-> d, age |-> age, idle |-> idle]

Min(a, b) == IF a < b THEN a ELSE b
\* An entry one clock tick later.
Aged(e, ttl) == IF e.present
                THEN [e EXCEPT !.age = Min(@ + 1, ttl), !.idle = Min(@ + 1, ttl)]
                ELSE e

NoOp == [state |-> "unused", svc |-> "none", key |-> "none", kind |-> "none",
         cleared |-> FALSE, waiters |-> {}, snap |-> NoEntry]

\* An operation whose completion handling has finished.
DoneOp == [state |-> "done", svc |-> "none", key |-> "none", kind |-> "none",
           cleared |-> TRUE, waiters |-> {}, snap |-> NoEntry]

Call(name, svc, key) == [name |-> name, svc |-> svc, key |-> key]
\* Label of a step that is no call of get, refresh or invalidate.
Internal == Call("internal", "none", "none")

\* A caller attached to a promise: which method, whether a cached payload
\* existed when it was called, whether it started the operation.
Waiter(call, hadEntry, started) == [call |-> call, hadEntry |-> hadEntry, started |-> started]

\* The settlement a caller sees.
Result(svc, key, w, ok, op, data) ==
  [svc |-> svc, key |-> key, call |-> w.call, hadEntry |-> w.hadEntry,
   started |-> w.started, ok |-> ok, op |-> op, data |-> data]

\* The payload of operation i is i itself: every operation yields a distinct object.
Payload(i) == i

Unused == {i \in OpIds : ops[i].state = "unused"}
NewOp == CHOOSE i \in Unused : \A j \in Unused : i <= j

\* Operations of a key that were started and whose completion handling has not finished.
InFlight(svc, key) ==
  {i \in OpIds : /\ ops[i].svc = svc /\ ops[i].key = key
                 /\ ops[i].state # "unused" /\ ~ops[i].cleared}
\* The port calls (discover / listPRs) issued for a key by the current step.
Started(svc, key) ==
  {i \in OpIds : ops[i].state = "unused" /\ ops'[i].state = "pending"
                 /\ ops'[i].svc = svc /\ ops'[i].key = key}

\* ------------------------------------------------------- promise plumbing
\* `return promise` / `await promise` on promise i by a caller w.
JoinOp(svc, key, i, w) ==
  IF ops[i].state = "pending"
  THEN /\ ops' = [ops EXCEPT ![i].waiters = @ \cup {w}]
       /\ resolved' = {}
  ELSE /\ ops' = ops
       /\ resolved' = {Result(svc, key, w, ops[i].state = "fulfilled", i,
                              IF ops[i].state = "fulfilled" THEN Payload(i) ELSE 0)}

\* A port call is issued: a new pending promise.
StartOp(svc, key, kind, ws, snap) ==
  /\ Unused # {}
  /\ ops' = [ops EXCEPT ![NewOp] = [state |-> "pending", svc |-> svc, key |-> key,
                                    kind |-> kind, cleared |-> FALSE, waiters |-> ws,
                                    snap |-> snap]]

SettleAll(svc, key, i, ok) ==
  {Result(svc, key, w, ok, i, IF ok THEN Payload(i) ELSE 0) : w \in ops[i].waiters}

\* ------------------------------------------------- SessionCacheService
SCFresh == scCache.present /\ scCache.age < SessionTtl

\* refresh() without its "already updating" test
SCRefreshEnter_NoJoin(call) ==
  /\ StartOp("session", SKey, "blocking", {Waiter(call, call = "get" /\ scCache.present, call = "get")}, NoEntry)
  /\ scUpdateInProgress' = TRUE
  /\ scUpdatePromise' = NewOp
  /\ resolved' = {}

\* refresh(), up to its await
SCRefreshEnter(call) ==
  IF scUpdateInProgress /\ scUpdatePromise # 0
  THEN /\ JoinOp("session", SKey, scUpdatePromise, Waiter(call, call = "get" /\ scCache.present, FALSE))
       /\ UNCHANGED <<scUpdateInProgress, scUpdatePromise>>
  ELSE /\ StartOp("session", SKey, "blocking", {Waiter(call, call = "get" /\ scCache.present, call = "get")}, NoEntry)
       /\ scUpdateInProgress' = TRUE
       /\ scUpdatePromise' = NewOp
       /\ resolved' = {}

\* triggerBackgroundUpdate()
SCTriggerBackgroundUpdate ==
  IF scUpdateInProgress
  THEN UNCHANGED <<ops, scUpdateInProgress, scUpdatePromise>>
  ELSE /\ StartOp("session", SKey, "background", {}, scCache)
       /\ scUpdateInProgress' = TRUE
       /\ scUpdatePromise' = NewOp

\* get() that awaits the refresh of a stale entry instead of returning the entry
SCGet_AwaitsStale ==
  /\ UNCHANGED notCache
  /\ instance = "session"
  /\ lastCall' = Call("get", "session", SKey)
  /\ UNCHANGED <<instance, pcCache, pcUpdateInProgress, scCache>>
  /\ IF SCFresh
     THEN /\ resolved' = {Result("session", SKey, Waiter("get", TRUE, FALSE), TRUE, 0, scCache.data)}
          /\ UNCHANGED <<ops, scUpdateInProgress, scUpdatePromise>>
     ELSE SCRefreshEnter("get")

\* get()
SCGet ==
  /\ UNCHANGED notCache
  /\ instance = "session"
  /\ lastCall' = Call("get", "session", SKey)
  /\ UNCHANGED <<instance, pcCache, pcUpdateInProgress, scCache>>
  /\ IF SCFresh
     THEN /\ resolved' = {Result("session", SKey, Waiter("get", TRUE, FALSE), TRUE, 0, scCache.data)}
          /\ UNCHANGED <<ops, scUpdateInProgress, scUpdatePromise>>
     ELSE IF scUpdateInProgress /\ scUpdatePromise # 0
     THEN /\ JoinOp("session", SKey, scUpdatePromise, Waiter("get", scCache.present, FALSE))
          /\ UNCHANGED <<scUpdateInProgress, scUpdatePromise>>
     ELSE IF scCache.present
     THEN /\ SCTriggerBackgroundUpdate
          /\ resolved' = {Result("session", SKey, Waiter("get", TRUE, FALSE), TRUE, 0, scCache.data)}
     ELSE SCRefreshEnter("get")

\* refresh() called by a client
SCRefresh ==
  /\ UNCHANGED notCache
  /\ instance = "session"
  /\ lastCall' = Call("refresh", "session", SKey)
  /\ UNCHANGED <<instance, pcCache, pcUpdateInProgress, scCache>>
  /\ SCRefreshEnter("refresh")

\* invalidate()
SCInvalidate ==
  /\ UNCHANGED notCache
  /\ instance = "session"
  /\ lastCall' = Call("invalidate", "session", SKey)
  /\ UNCHANGED <<instance, pcCache, pcUpdateInProgress>>
  /\ scCache' = NoEntry
  /\ IF scUpdateInProgress /\ scUpdatePromise # 0
     THEN /\ JoinOp("session", SKey, scUpdatePromise, Waiter("invalidate", FALSE, FALSE))
          /\ UNCHANGED <<scUpdateInProgress, scUpdatePromise>>
     ELSE /\ StartOp("session", SKey, "blocking", {Waiter("invalidate", FALSE, FALSE)}, NoEntry)
          /\ scUpdateInProgress' = TRUE
          /\ scUpdatePromise' = NewOp
          /\ resolved' = {}

\* refresh(): the continuation after `await this.updatePromise`, with its finally
SCRefreshDone(i, ok) ==
  /\ UNCHANGED notCache
  /\ ops[i].state = "pending" /\ ops[i].svc = "session" /\ ops[i].kind = "blocking"
  /\ lastCall' = Internal
  /\ scCache' = IF ok THEN Entry(Payload(i), 0, 0) ELSE scCache
  /\ scUpdateInProgress' = FALSE
  /\ scUpdatePromise' = 0
  /\ resolved' = SettleAll("session", SKey, i, ok)
  /\ ops' = [ops EXCEPT ![i] = DoneOp]
  /\ UNCHANGED <<instance, pcCache, pcUpdateInProgress>>

\* triggerBackgroundUpdate(): .then(data => ...)
SCBackgroundThen(i) ==
  /\ UNCHANGED notCache
  /\ ops[i].state = "pending" /\ ops[i].svc = "session" /\ ops[i].kind = "background"
  /\ lastCall' = Internal
  /\ scCache' = Entry(Payload(i), 0, 0)
  /\ resolved' = SettleAll("session", SKey, i, TRUE)
  /\ ops' = [ops EXCEPT ![i].state = "fulfilled", ![i].waiters = {}]
  /\ UNCHANGED <<instance, scUpdateInProgress, scUpdatePromise, pcCache, pcUpdateInProgress>>

\* a catch callback that drops the entry
SCBackgroundCatch_DropsEntry(i) ==
  /\ UNCHANGED notCache
  /\ ops[i].state = "pending" /\ ops[i].svc = "session" /\ ops[i].kind = "background"
  /\ lastCall' = Internal
  /\ scCache' = NoEntry
  /\ resolved' = SettleAll("session", SKey, i, FALSE)
  /\ ops' = [ops EXCEPT ![i].state = "rejected", ![i].waiters = {}]
  /\ UNCHANGED <<instance, scUpdateInProgress, scUpdatePromise, pcCache, pcUpdateInProgress>>

\* triggerBackgroundUpdate(): .catch(error => ...)
SCBackgroundCatch(i) ==
  /\ UNCHANGED notCache
  /\ ops[i].state = "pending" /\ ops[i].svc = "session" /\ ops[i].kind = "background"
  /\ lastCall' = Internal
  /\ resolved' = SettleAll("session", SKey, i, FALSE)
  /\ ops' = [ops EXCEPT ![i].state = "rejected", ![i].waiters = {}]
  /\ UNCHANGED <<instance, scCache, scUpdateInProgress, scUpdatePromise, pcCache, pcUpdateInProgress>>

\* triggerBackgroundUpdate(): .finally(() => ...)
SCBackgroundFinally(i) ==
  /\ UNCHANGED notCache
  /\ ops[i].state \in {"fulfilled", "rejected"} /\ ~ops[i].cleared
  /\ ops[i].svc = "session" /\ ops[i].kind = "background"
  /\ lastCall' = Internal
  /\ scUpdateInProgress' = FALSE
  /\ scUpdatePromise' = 0
  /\ resolved' = {}
  /\ ops' = [ops EXCEPT ![i] = DoneOp]
  /\ UNCHANGED <<instance, scCache, pcCache, pcUpdateInProgress>>

\* ------------------------------------------------------ PRCacheService
PCFresh(u) == pcCache[u].present /\ pcCache[u].idle < PRTtl

\* refresh(username), up to its await
PCRefreshEnter(u, call) ==
  IF pcUpdateInProgress[u] # 0
  THEN /\ JoinOp("pr", u, pcUpdateInProgress[u], Waiter(call, call = "get" /\ pcCache[u].present, FALSE))
       /\ UNCHANGED pcUpdateInProgress
  ELSE /\ StartOp("pr", u, "blocking", {Waiter(call, call = "get" /\ pcCache[u].present, call = "get")}, NoEntry)
       /\ pcUpdateInProgress' = [pcUpdateInProgress EXCEPT ![u] = NewOp]
       /\ resolved' = {}

\* triggerBackgroundUpdate(username) with its guard inverted
PCTriggerBackgroundUpdate_Inverted(u) ==
  IF pcUpdateInProgress[u] = 0
  THEN UNCHANGED <<ops, pcUpdateInProgress>>
  ELSE /\ StartOp("pr", u, "background", {}, pcCache[u])
       /\ pcUpdateInProgress' = [pcUpdateInProgress EXCEPT ![u] = NewOp]

\* triggerBackgroundUpdate(username)
PCTriggerBackgroundUpdate(u) ==
  IF pcUpdateInProgress[u] # 0
  THEN UNCHANGED <<ops, pcUpdateInProgress>>
  ELSE /\ StartOp("pr", u, "background", {}, pcCache[u])
       /\ pcUpdateInProgress' = [pcUpdateInProgress EXCEPT ![u] = NewOp]

\* get(username)
PCGet(u) ==
  /\ UNCHANGED notCache
  /\ instance = "pr"
  /\ lastCall' = Call("get", "pr", u)
  /\ UNCHANGED <<instance, scCache, scUpdateInProgress, scUpdatePromise>>
  /\ IF PCFresh(u)
     THEN /\ pcCache' = [pcCache EXCEPT ![u].idle = 0]
          /\ resolved' = {Result("pr", u, Waiter("get", TRUE, FALSE), TRUE, 0, pcCache[u].data)}
          /\ UNCHANGED <<ops, pcUpdateInProgress>>
     ELSE IF pcUpdateInProgress[u] # 0
     THEN /\ JoinOp("pr", u, pcUpdateInProgress[u], Waiter("get", pcCache[u].present, FALSE))
          /\ UNCHANGED <<pcCache, pcUpdateInProgress>>
     ELSE IF pcCache[u].present
     THEN /\ PCTriggerBackgroundUpdate(u)
          /\ resolved' = {Result("pr", u, Waiter("get", TRUE, FALSE), TRUE, 0, pcCache[u].data)}
          /\ UNCHANGED pcCache
     ELSE /\ PCRefreshEnter(u, "get")
          /\ UNCHANGED pcCache

\* refresh(username) called by a client
PCRefresh(u) ==
  /\ UNCHANGED notCache
  /\ instance = "pr"
  /\ lastCall' = Call("refresh", "pr", u)
  /\ UNCHANGED <<instance, scCache, scUpdateInProgress, scUpdatePromise, pcCache>>
  /\ PCRefreshEnter(u, "refresh")

\* invalidate(username)
PCInvalidate(u) ==
  /\ UNCHANGED notCache
  /\ instance = "pr"
  /\ lastCall' = Call("invalidate", "pr", u)
  /\ UNCHANGED <<instance, scCache, scUpdateInProgress, scUpdatePromise>>
  /\ pcCache' = [pcCache EXCEPT ![u] = NoEntry]
  /\ IF pcUpdateInProgress[u] # 0
     THEN /\ JoinOp("pr", u, pcUpdateInProgress[u], Waiter("invalidate", FALSE, FALSE))
          /\ UNCHANGED pcUpdateInProgress
     ELSE /\ StartOp("pr", u, "blocking", {Waiter("invalidate", FALSE, FALSE)}, NoEntry)
          /\ pcUpdateInProgress' = [pcUpdateInProgress EXCEPT ![u] = NewOp]
          /\ resolved' = {}

\* invalidateAll()
PCInvalidateAll ==
  /\ UNCHANGED notCache
  /\ instance = "pr"
  /\ lastCall' = Internal
  /\ pcCache' = [u \in Users |-> NoEntry]
  /\ resolved' = {}
  /\ UNCHANGED <<instance, scCache, scUpdateInProgress, scUpdatePromise, pcUpdateInProgress, ops>>

\* markInteraction(username)
PCMarkInteraction(u) ==
  /\ UNCHANGED notCache
  /\ instance = "pr"
  /\ lastCall' = Internal
  /\ pcCache' = IF pcCache[u].present
                THEN [pcCache EXCEPT ![u].idle = 0]
                ELSE pcCache
  /\ resolved' = {}
  /\ UNCHANGED <<instance, scCache, scUpdateInProgress, scUpdatePromise, pcUpdateInProgress, ops>>

\* refresh(username) whose marker is deleted after the await instead of in a finally
PCRefreshDone_NoFinally(i, ok) ==
  /\ UNCHANGED notCache
  /\ ops[i].state = "pending" /\ ops[i].svc = "pr" /\ ops[i].kind = "blocking"
  /\ lastCall' = Internal
  /\ pcCache' = IF ok THEN [pcCache EXCEPT ![ops[i].key] = Entry(Payload(i), 0, 0)]
                ELSE pcCache
  /\ pcUpdateInProgress' = IF ok THEN [pcUpdateInProgress EXCEPT ![ops[i].key] = 0]
                           ELSE pcUpdateInProgress
  /\ resolved' = SettleAll("pr", ops[i].key, i, ok)
  /\ ops' = [ops EXCEPT ![i] = DoneOp]
  /\ UNCHANGED <<instance, scCache, scUpdateInProgress, scUpdatePromise>>

\* refresh(username): the continuation after `await updatePromise`, with its finally
PCRefreshDone(i, ok) ==
  /\ UNCHANGED notCache
  /\ ops[i].state = "pending" /\ ops[i].svc = "pr" /\ ops[i].kind = "blocking"
  /\ lastCall' = Internal
  /\ pcCache' = IF ok THEN [pcCache EXCEPT ![ops[i].key] = Entry(Payload(i), 0, 0)]
                ELSE pcCache
  /\ pcUpdateInProgress' = [pcUpdateInProgress EXCEPT ![ops[i].key] = 0]
  /\ resolved' = SettleAll("pr", ops[i].key, i, ok)
  /\ ops' = [ops EXCEPT ![i] = DoneOp]
  /\ UNCHANGED <<instance, scCache, scUpdateInProgress, scUpdatePromise>>

\* existing?.lastInteraction || now
PCKeptInteraction(existing) ==
  IF existing.present THEN existing.idle ELSE 0

\* triggerBackgroundUpdate(username): .then(data => ...)
PCBackgroundThen(i) ==
  /\ UNCHANGED notCache
  /\ ops[i].state = "pending" /\ ops[i].svc = "pr" /\ ops[i].kind = "background"
  /\ lastCall' = Internal
  /\ pcCache' = [pcCache EXCEPT ![ops[i].key] =
                   Entry(Payload(i), 0, PCKeptInteraction(pcCache[ops[i].key]))]
  /\ resolved' = SettleAll("pr", ops[i].key, i, TRUE)
  /\ ops' = [ops EXCEPT ![i].state = "fulfilled", ![i].waiters = {}]
  /\ UNCHANGED <<instance, scCache, scUpdateInProgress, scUpdatePromise, pcUpdateInProgress>>

\* triggerBackgroundUpdate(username): .catch(error => ...)
PCBackgroundCatch(i) ==
  /\ UNCHANGED notCache
  /\ ops[i].state = "pending" /\ ops[i].svc = "pr" /\ ops[i].kind = "background"
  /\ lastCall' = Internal
  /\ resolved' = SettleAll("pr", ops[i].key, i, FALSE)
  /\ ops' = [ops EXCEPT ![i].state = "rejected", ![i].waiters = {}]
  /\ UNCHANGED <<instance, scCache, scUpdateInProgress, scUpdatePromise, pcCache, pcUpdateInProgress>>

\* a finally callback that leaves the key in updateInProgress
PCBackgroundFinally_KeepsMarker(i) ==
  /\ UNCHANGED notCache
  /\ ops[i].state \in {"fulfilled", "rejected"} /\ ~ops[i].cleared
  /\ ops[i].svc = "pr" /\ ops[i].kind = "background"
  /\ lastCall' = Internal
  /\ resolved' = {}
  /\ ops' = [ops EXCEPT ![i] = DoneOp]
  /\ UNCHANGED <<instance, scCache, scUpdateInProgress, scUpdatePromise, pcCache,
                 pcUpdateInProgress>>

\* triggerBackgroundUpdate(username): .finally(() => ...)
PCBackgroundFinally(i) ==
  /\ UNCHANGED notCache
  /\ ops[i].state \in {"fulfilled", "rejected"} /\ ~ops[i].cleared
  /\ ops[i].svc = "pr" /\ ops[i].kind = "background"
  /\ lastCall' = Internal
  /\ pcUpdateInProgress' = [pcUpdateInProgress EXCEPT ![ops[i].key] = 0]
  /\ resolved' = {}
  /\ ops' = [ops EXCEPT ![i] = DoneOp]
  /\ UNCHANGED <<instance, scCache, scUpdateInProgress, scUpdatePromise, pcCache>>

\* ------------------------------------------------------------- the clock
Tick ==
  /\ UNCHANGED notCache
  /\ scCache' = Aged(scCache, SessionTtl)
  /\ pcCache' = [u \in Users |-> Aged(pcCache[u], PRTtl)]
  /\ ops' = [i \in OpIds |->
               [ops[i] EXCEPT !.snap = Aged(@, IF ops[i].svc = "pr" THEN PRTtl ELSE SessionTtl)]]
  /\ lastCall' = Internal
  /\ resolved' = {}
  /\ UNCHANGED <<instance, scUpdateInProgress, scUpdatePromise, pcUpdateInProgress>>

\* ------------------------------------------------------ DiscoveryService
NoGit == [ok |-> FALSE, repo |-> "none", branch |-> "none"]
GitInfos == {NoGit} \cup {[ok |-> TRUE, repo |-> r, branch |-> b] : r \in Repos, b \in Branches}
NoPR == [number |-> 0, branch |-> "none", repo |-> "none", state |-> "none", draft |-> FALSE]
\* Request 1 may be on either branch; the further requests share the branch "feat".
PRsOf(repo) == {[number |-> nb[1], branch |-> nb[2], repo |-> repo, state |-> "OPEN",
                  draft |-> FALSE] :
                  nb \in {x \in PRNumbers \X Branches : x[1] = 1 \/ x[2] = "feat"}}
\* What github.listPRs(repo) may resolve with: requests with distinct numbers, in any order.
Listings(repo) ==
  {<<>>} \cup {<<p>> : p \in PRsOf(repo)}
         \cup {<<pq[1], pq[2]>> : pq \in {x \in PRsOf(repo) \X PRsOf(repo) : x[1].number # x[2].number}}

NoBranchMap == [has |-> FALSE, map |-> [b \in Branches |-> NoPR]]

\* The last request of a branch overwrites the earlier ones.
BranchMapOf_LastWins(prs) ==
  [b \in Branches |->
     IF \E k \in 1..Len(prs) : prs[k].branch = b
     THEN prs[CHOOSE k \in 1..Len(prs) :
                  /\ prs[k].branch = b
                  /\ \A j \in 1..Len(prs) : prs[j].branch = b => k >= j]
     ELSE NoPR]

\* discover(): the branchMap of one listing; the first request of a branch is kept
BranchMapOf(prs) ==
  [b \in Branches |->
     IF \E k \in 1..Len(prs) : prs[k].branch = b
     THEN prs[CHOOSE k \in 1..Len(prs) :
                  /\ prs[k].branch = b
                  /\ \A j \in 1..Len(prs) : prs[j].branch = b => k <= j]
     ELSE NoPR]

\* discover(): the Set of repositories collected from the sessions with a snapshot
CollectRepos(ss) == {gitState[x].repo : x \in {y \in ss : gitState[y].ok}}

\* Per-session fetching: one listPRs call for every session of the repository.
BulkFetchCalls_PerSession(ss, r) == Cardinality({x \in ss : gitState[x].ok /\ gitState[x].repo = r})

\* discover(): the listPRs calls issued for repository r by Array.from(repos).map(...)
BulkFetchCalls(ss, r) == IF r \in CollectRepos(ss) THEN 1 ELSE 0

\* A SessionState; gitInfo = NoGit and pr = NoPR stand for null.
SessionState(x, gitInfo, pr) ==
  [session |-> x, gitInfo |-> gitInfo, pr |-> pr, hasGit |-> gitInfo.ok, hasPR |-> pr # NoPR]
NoState == SessionState(0, NoGit, NoPR)

\* The request is looked up under the snapshot the collecting loop read.
DiscoverOneWithCache_StaleLookup(x, prMap) ==
  LET gitInfo == gitState[x]
      pr == IF gitInfo.ok /\ dSeen[x].ok /\ prMap[dSeen[x].repo].has
            THEN prMap[dSeen[x].repo].map[dSeen[x].branch]
            ELSE NoPR
  IN SessionState(x, gitInfo, pr)

\* discoverOneWithCache(session, prMap)
DiscoverOneWithCache(x, prMap) ==
  LET gitInfo == gitState[x]
      pr == IF gitInfo.ok /\ prMap[gitInfo.repo].has
            THEN prMap[gitInfo.repo].map[gitInfo.branch]
            ELSE NoPR
  IN SessionState(x, gitInfo, pr)

\* discover() is called: await this.tmux.list('')
DiscoverCall ==
  /\ dPc = "idle"
  /\ dPc' = "list"
  /\ UNCHANGED <<tmuxSessions, gitState, dSessions, dSeen, dRepos, dPending, dPrMap,
                 listCalls, dStates, dListed, dOne, dFailed>>
  /\ UNCHANGED notDiscovery

\* discover(): tmux.list resolved; the repositories are collected and one
\* listPRs call per repository is issued
DiscoverFetch ==
  /\ dPc = "list"
  /\ dSessions' = tmuxSessions
  /\ dSeen' = [x \in SessionIds |-> IF x \in tmuxSessions THEN gitState[x] ELSE NoGit]
  /\ dRepos' = CollectRepos(tmuxSessions)
  /\ dPending' = CollectRepos(tmuxSessions)
  /\ listCalls' = [r \in Repos |-> listCalls[r] + BulkFetchCalls(tmuxSessions, r)]
  /\ dPc' = "fetch"
  /\ UNCHANGED <<tmuxSessions, gitState, dPrMap, dStates, dListed, dOne, dFailed>>
  /\ UNCHANGED notDiscovery

\* discover(): listPRs(repo) resolved; its branchMap is stored
ListPRsResolve(r, prs) ==
  /\ dPc = "fetch" /\ r \in dPending
  /\ dPending' = dPending \ {r}
  /\ dPrMap' = [dPrMap EXCEPT ![r] = [has |-> TRUE, map |-> BranchMapOf(prs)]]
  /\ dListed' = [dListed EXCEPT ![r] = prs]
  /\ UNCHANGED <<tmuxSessions, gitState, dPc, dSessions, dSeen, dRepos, listCalls, dStates, dOne,
                 dFailed>>
  /\ UNCHANGED notDiscovery

\* A rejected listing discards the request maps built so far.
ListPRsReject_DropsAll(r) ==
  /\ dPc = "fetch" /\ r \in dPending
  /\ dPending' = dPending \ {r}
  /\ dPrMap' = [q \in Repos |-> NoBranchMap]
  /\ dFailed' = dFailed \cup {r}
  /\ UNCHANGED <<tmuxSessions, gitState, dPc, dSessions, dSeen, dRepos, listCalls,
                 dStates, dListed, dOne>>
  /\ UNCHANGED notDiscovery

\* discover(): listPRs(repo) rejected; the repository is skipped
ListPRsReject(r) ==
  /\ dPc = "fetch" /\ r \in dPending
  /\ dPending' = dPending \ {r}
  /\ dFailed' = dFailed \cup {r}
  /\ UNCHANGED <<tmuxSessions, gitState, dPc, dSessions, dSeen, dRepos, dPrMap, listCalls,
                 dStates, dListed, dOne>>
  /\ UNCHANGED notDiscovery

\* Only the sessions inside a repository are reported.
DiscoverAssemble_GitOnly ==
  /\ dPc = "fetch" /\ dPending = {}
  /\ dStates' = {DiscoverOneWithCache(x, dPrMap) : x \in {y \in dSessions : gitState[y].ok}}
  /\ dPc' = "done"
  /\ UNCHANGED <<tmuxSessions, gitState, dSessions, dSeen, dRepos, dPending, dPrMap, listCalls,
                 dListed, dOne, dFailed>>
  /\ UNCHANGED notDiscovery

\* discover(): every listPRs call settled; the states are assembled and returned
DiscoverAssemble ==
  /\ dPc = "fetch" /\ dPending = {}
  /\ dStates' = {DiscoverOneWithCache(x, dPrMap) : x \in dSessions}
  /\ dPc' = "done"
  /\ UNCHANGED <<tmuxSessions, gitState, dSessions, dSeen, dRepos, dPending, dPrMap, listCalls,
                 dListed, dOne, dFailed>>
  /\ UNCHANGED notDiscovery

\* github.findPR: the first request of the listing on the branch, or null
FindPR(prs, branch) ==
  IF \E k \in 1..Len(prs) : prs[k].branch = branch
  THEN prs[CHOOSE k \in 1..Len(prs) :
               /\ prs[k].branch = branch
               /\ \A j \in 1..Len(prs) : prs[j].branch = branch => k <= j]
  ELSE NoPR

\* discoverOne(session) of a session outside a repository: no port call is awaited
DiscoverOneNoGit(x) ==
  /\ dPc = "idle" /\ x \in tmuxSessions /\ ~gitState[x].ok
  /\ dOne' = SessionState(x, gitState[x], NoPR)
  /\ dPc' = "one"
  /\ UNCHANGED <<tmuxSessions, gitState, dSessions, dSeen, dRepos, dPending, dPrMap, listCalls,
                 dStates, dListed, dFailed>>
  /\ UNCHANGED notDiscovery

\* discoverOne(session): getInfo succeeded and github.findPR resolved on listing prs
DiscoverOneFound(x, prs) ==
  /\ dPc = "idle" /\ x \in tmuxSessions /\ gitState[x].ok
  /\ prs \in Listings(gitState[x].repo)
  /\ listCalls' = [listCalls EXCEPT ![gitState[x].repo] = @ + 1]
  /\ dListed' = [dListed EXCEPT ![gitState[x].repo] = prs]
  /\ dOne' = SessionState(x, gitState[x], FindPR(prs, gitState[x].branch))
  /\ dPc' = "one"
  /\ UNCHANGED <<tmuxSessions, gitState, dSessions, dSeen, dRepos, dPending, dPrMap, dStates,
                 dFailed>>
  /\ UNCHANGED notDiscovery

\* discoverOne(session): getInfo succeeded and github.findPR rejected
DiscoverOneFindFails(x) ==
  /\ dPc = "idle" /\ x \in tmuxSessions /\ gitState[x].ok
  /\ listCalls' = [listCalls EXCEPT ![gitState[x].repo] = @ + 1]
  /\ dOne' = SessionState(x, gitState[x], NoPR)
  /\ dPc' = "one"
  /\ UNCHANGED <<tmuxSessions, gitState, dSessions, dSeen, dRepos, dPending, dPrMap, dStates,
                 dListed, dFailed>>
  /\ UNCHANGED notDiscovery

\* A working directory changes while the pass awaits the listings.
DirectoryChanges(x, g) ==
  /\ dPc = "fetch" /\ x \in tmuxSessions /\ g # gitState[x]
  /\ Cardinality({y \in tmuxSessions \ {x} : gitState[y] # dSeen[y]}) < MaxDirChanged
  /\ gitState' = [gitState EXCEPT ![x] = g]
  /\ UNCHANGED <<tmuxSessions, dPc, dSessions, dSeen, dRepos, dPending, dPrMap, listCalls,
                 dStates, dListed, dOne, dFailed>>
  /\ UNCHANGED notDiscovery

\* ---------------------------------------------------------- GitHubService
\* config.repoName, the repository of config.repo
RepoName == "o/a"

\* createPR drops the draft flag.
NewPR_NotDraft(n, b, d) ==
  [number |-> n, branch |-> b, repo |-> RepoName, state |-> "OPEN", draft |-> FALSE]

\* A PullRequest as createPR returns it: state OPEN.
NewPR(n, b, d) == [number |-> n, branch |-> b, repo |-> RepoName, state |-> "OPEN", draft |-> d]

IsOpen(pr) == pr.state = "OPEN"
\* listPRsReal(repo, {state: 'open'}): gh pr list --state open
ListPRsReal(r) == IF r = RepoName THEN SelectSeq(remotePRs, IsOpen) ELSE <<>>
\* listPRs leaves the shadow requests out.
MockPRsOf_None(r) == <<>>

\* this.mockPRs.get(repo) || []
MockPRsOf(r) == IF r = RepoName THEN mockPRs ELSE <<>>
\* listPRs(repo, {state: 'open'}) when the real listing succeeds
ListPRs(r) == IF mockWrites THEN MockPRsOf(r) \o ListPRsReal(r) ELSE ListPRsReal(r)

\* The requests of a store with request n in state st.
WithState(prs, n, st) ==
  [k \in 1..Len(prs) |-> IF prs[k].number = n THEN [prs[k] EXCEPT !.state = st] ELSE prs[k]]

NumbersOf(prs) == {prs[k].number : k \in 1..Len(prs)}
PRCount == Len(mockPRs) + Len(remotePRs)
\* The number GitHub gives the next request of the repository.
NextRemoteNumber == Len(remotePRs) + 1

\* getPR answers with a request of its own making for a number it does not know.
GetPR_AnyRequest(n) ==
  IF mockWrites /\ n \in NumbersOf(mockPRs)
  THEN mockPRs[CHOOSE k \in 1..Len(mockPRs) : mockPRs[k].number = n]
  ELSE IF n \in NumbersOf(remotePRs)
       THEN remotePRs[CHOOSE k \in 1..Len(remotePRs) : remotePRs[k].number = n]
       ELSE NewPR(n, "feat", FALSE)

\* getPR(repo, number): the shadow store first, then gh pr view; NoPR is null
GetPR(n) ==
  IF mockWrites /\ n \in NumbersOf(mockPRs)
  THEN mockPRs[CHOOSE k \in 1..Len(mockPRs) : mockPRs[k].number = n]
  ELSE IF n \in NumbersOf(remotePRs)
       THEN remotePRs[CHOOSE k \in 1..Len(remotePRs) : remotePRs[k].number = n]
       ELSE NoPR

\* ------------------------------------------------- ClaudeHandoverService
\* A text is a sequence of characters; a word or a phrase standing in a text
\* ("claude", a branch name, a number, a stretch of the message template) stands
\* for its characters, none of them a quote or a backslash.
Quote == "'"
Backslash == "\\"

\* fullContext.replace(/'/g, "'\\''") replaces the first single quote only.
RECURSIVE EscapeQuotes_FirstOnly(_)
EscapeQuotes_FirstOnly(m) ==
  IF m = <<>> THEN <<>>
  ELSE IF Head(m) = Quote THEN <<Quote, Backslash, Quote, Quote>> \o Tail(m)
       ELSE <<Head(m)>> \o EscapeQuotes_FirstOnly(Tail(m))

\* fullContext.replace(/'/g, "'\\''"): every single quote becomes '\''
RECURSIVE EscapeQuotes(_)
EscapeQuotes(m) ==
  IF m = <<>> THEN <<>>
  ELSE (IF Head(m) = Quote THEN <<Quote, Backslash, Quote, Quote>> ELSE <<Head(m)>>)
       \o EscapeQuotes(Tail(m))

\* `claude '${escapedPrompt}'`
ClaudeCommand(fullContext) ==
  <<"claude", " ", Quote>> \o EscapeQuotes(fullContext) \o <<Quote>>

\* buildContext(context): the fixed text around the request number, the
\* branches and the user's prompt (the project has no guidelines configured)
BuildContext(context) ==
  <<"I", Quote, "m working on PR #", ToString(context.prNumber), " (", context.branch,
    " -> ", context.baseBranch, ").", "\n", "\n", "User", Quote, "s request: ">>
  \o context.userPrompt
  \o <<"\n", "\n", "\n", "\n", "Please help me implement this.">>

\* initialize sends the command and the prompt in two sendKeys calls.
HandoverInitialize_TwoInjections(sessionId, context) ==
  <<[id |-> sessionId, keys |-> <<"claude">>],
    [id |-> sessionId, keys |-> BuildContext(context)]>>

\* initialize(sessionId, context): the tmux.sendKeys calls it issues
HandoverInitialize(sessionId, context) ==
  <<[id |-> sessionId, keys |-> ClaudeCommand(BuildContext(context))]>>

\* The characters of the user prompts tried: the quote, the backslash, the
\* space and a letter.
MsgChars == {Quote, Backslash, " ", "a"}
HandoverRequests ==
  {[fn |-> "initialize", skipPermissions |-> sk,
    context |-> [prNumber |-> 7, branch |-> "feat", baseBranch |-> "main",
                 userPrompt |-> t]] :
     t \in Texts(MsgChars), sk \in {"absent", "false", "true"}}

\* The command line initialize hands to tmux.sendKeys; the variant of the
\* service without the skipPermissions option appends nothing
InitializeCommand(req) ==
  ClaudeCommand(BuildContext(req.context))
  \o (IF req.skipPermissions = "true"
      THEN <<" ", "--dangerously-skip-permissions">>
      ELSE <<>>)

\* initialize of the service without the skipPermissions option
HandoverPlain ==
  /\ request.fn = "initialize" /\ request.skipPermissions = "absent"
  /\ response = NoResponse
  /\ response' = [status |-> "sent", keys |-> InitializeCommand(request)]
  /\ UNCHANGED <<request, notCall>>

\* initialize of the service with the skipPermissions option
HandoverSkipPermissions ==
  /\ request.fn = "initialize" /\ request.skipPermissions # "absent"
  /\ response = NoResponse
  /\ response' = [status |-> "sent", keys |-> InitializeCommand(request)]
  /\ UNCHANGED <<request, notCall>>

\* The words a POSIX shell reads from a command line: inside single quotes
\* every character up to the closing quote is literal; outside them a backslash
\* makes the next character literal and a space or a newline ends the word.
\* A line that ends inside a quote is not a command.
RECURSIVE ShellRead(_, _, _, _, _)
ShellRead(line, inQuote, word, started, words) ==
  IF line = <<>>
  THEN IF inQuote THEN <<"unterminated">>
       ELSE IF started THEN Append(words, word) ELSE words
  ELSE LET c == Head(line)
           rest == Tail(line)
       IN IF inQuote
          THEN IF c = Quote THEN ShellRead(rest, FALSE, word, TRUE, words)
               ELSE ShellRead(rest, TRUE, Append(word, c), TRUE, words)
          ELSE IF c = Quote THEN ShellRead(rest, TRUE, word, TRUE, words)
          ELSE IF c = Backslash
               THEN IF rest = <<>> THEN Append(words, Append(word, c))
                    ELSE ShellRead(Tail(rest), FALSE, Append(word, Head(rest)), TRUE, words)
          ELSE IF c \in {" ", "\n"}
               THEN ShellRead(rest, FALSE, <<>>, FALSE,
                              IF started THEN Append(words, word) ELSE words)
          ELSE ShellRead(rest, FALSE, Append(word, c), TRUE, words)
ShellWords(line) == ShellRead(line, FALSE, <<>>, FALSE, <<>>)

\* -------------------------------------------------------------- PRService
\* The invocations of the workflows: two, which may interleave.  The session
\* invocation p creates is session p.
Procs == {1, 2}

\* A running invocation: the workflow, where it is suspended, its argument
\* (prNumber) and its locals.
NoWf == [kind |-> "none", pc |-> "idle", arg |-> 0, branch |-> "none", temp |-> 0,
         pr |-> NoPR, calls |-> <<>>]
\* An invocation that has returned or thrown.
Finished(ok) == [NoWf EXCEPT !.pc = IF ok THEN "done" ELSE "failed"]

\* The context a workflow hands to handover.initialize; the user's prompt of
\* createNew is the text "x".
HandoverContext(w) ==
  [prNumber |-> w.pr.number,
   branch |-> IF w.kind = "setupExisting" THEN w.pr.branch ELSE w.branch,
   baseBranch |-> "main",
   userPrompt |-> IF w.kind = "createNew" THEN <<"x">>
                  ELSE IF w.kind = "createFromBranch"
                       THEN <<"Working on PR from existing branch: ", w.branch>>
                       ELSE <<"Continue working on: ">>]

\* What a workflow call returned ({pr, session, clonePath}) or threw, with the
\* port calls it had issued and the sendKeys calls its handover made.
Return(p, w, ok, failed, issued, n) ==
  [proc |-> p, kind |-> w.kind, arg |-> w.arg, ok |-> ok, failed |-> failed,
   calls |-> w.calls \o issued,
   sent |-> IF \E k \in 1..Len(w.calls \o issued) : (w.calls \o issued)[k] = "handover"
            THEN HandoverInitialize(w.pr.number, HandoverContext(w))
            ELSE <<>>,
   pr |-> IF ok THEN w.pr ELSE NoPR,
   clonePath |-> IF ok THEN n ELSE 0, sessionId |-> IF ok THEN n ELSE 0]
NoReturn == Return(0, NoWf, FALSE, "none", <<>>, 0)

\* A directory under clonesDir: temp-<id> or pr-<id>, and the invocation that
\* cloned it.
Dir(kind, id, by) == [kind |-> kind, id |-> id, by |-> by]
DirsAt(kind, id) == {d \in dirs : d.kind = kind /\ d.id = id}
\* existsSync(path)
Exists(kind, id) == DirsAt(kind, id) # {}
\* The sessions whose working directory is clonesDir/pr-<n>.
SessionsIn(n) == {x \in tmuxSessions : sessionName[x] = n}
\* tmux has-session -t sessionPrefix+<n>
SessionExists(n) == SessionsIn(n) # {}

\* The port calls of createNew, in the order of the code.
CreateNewOrder == <<"generateMetadata", "clone", "createBranch", "checkout", "commit",
                    "push", "createPR", "rename", "createSession", "handover">>
\* Index of a port call in that order.
StepIndex(step) == CHOOSE k \in 1..Len(CreateNewOrder) : CreateNewOrder[k] = step
\* The calls from number i to number j are all issued, whether or not one threw.
CallsUpTo_PastFailure(i, j, stop) == SubSeq(CreateNewOrder, i, j)

\* The calls issued from call number i up to the one that threw, or up to call
\* number j when none did.
CallsUpTo(i, j, stop) ==
  SubSeq(CreateNewOrder, i, IF stop = "none" THEN j ELSE StepIndex(stop))

\* The workflows and the calls of the GitHubService run before the discovery
\* pass, and after the caller of a finished workflow has taken its result.
NoPass == dPc = "idle" /\ lastReturn = NoReturn
\* No workflow is suspended at a port call.  A client's own call of the
\* GitHubService is taken at such a point: between two segments of a workflow it
\* would change nothing that the workflow reads.
Quiet == \A p \in Procs : wf[p].pc \in {"idle", "done", "failed"}

\* createPR(params) called by a client of the service, not as a draft (as
\* createFromBranch calls it)
GhCreatePR(b) ==
  /\ NoPass /\ Quiet /\ PRCount < MaxPRs
  /\ IF mockWrites
     THEN /\ mockPRs' = Append(mockPRs, NewPR(nextMockNumber, b, FALSE))
          /\ nextMockNumber' = nextMockNumber + 1
          /\ UNCHANGED remotePRs
     ELSE /\ b \in remoteBranches
          /\ remotePRs' = Append(remotePRs, NewPR(NextRemoteNumber, b, FALSE))
          /\ UNCHANGED <<mockPRs, nextMockNumber>>
  /\ UNCHANGED <<mockWrites, remoteBranches, dirs, sessionName, clock, wf, lastReturn,
                 returned>>
  /\ UNCHANGED <<discVars, notProvision>>

\* updatePR(repo, number, {state}) in mock mode; the real gh pr edit changes
\* title and body only
GhUpdatePR(n, st) ==
  /\ NoPass /\ Quiet /\ mockWrites /\ n \in NumbersOf(mockPRs)
  /\ mockPRs' = WithState(mockPRs, n, IF st = "closed" THEN "CLOSED" ELSE "OPEN")
  /\ UNCHANGED <<mockWrites, nextMockNumber, remotePRs, remoteBranches, dirs, sessionName,
                 clock, wf, lastReturn, returned>>
  /\ UNCHANGED <<discVars, notProvision>>

\* closePR in simulated-write mode also closes the request on GitHub.
GhClosePR_AlsoReal(n) ==
  /\ NoPass /\ Quiet
  /\ n \in NumbersOf(mockPRs) \cup NumbersOf(remotePRs)
  /\ mockPRs' = WithState(mockPRs, n, "CLOSED")
  /\ remotePRs' = WithState(remotePRs, n, "CLOSED")
  /\ UNCHANGED <<mockWrites, nextMockNumber, remoteBranches, dirs, sessionName, clock, wf,
                 lastReturn, returned>>
  /\ UNCHANGED <<discVars, notProvision>>

\* closePR(repo, number)
GhClosePR(n) ==
  /\ NoPass /\ Quiet
  /\ IF mockWrites
     THEN /\ n \in NumbersOf(mockPRs)
          /\ mockPRs' = WithState(mockPRs, n, "CLOSED")
          /\ UNCHANGED remotePRs
     ELSE /\ n \in NumbersOf(remotePRs)
          /\ remotePRs' = WithState(remotePRs, n, "CLOSED")
          /\ UNCHANGED mockPRs
  /\ UNCHANGED <<mockWrites, nextMockNumber, remoteBranches, dirs, sessionName, clock, wf,
                 lastReturn, returned>>
  /\ UNCHANGED <<discVars, notProvision>>

\* The invocations are numbered in the order of their calls.
NextSlot(p) == \A q \in Procs : q < p => wf[q].pc # "idle"

\* A segment of invocation p ends: it threw at call stop (issued are the calls of
\* the segment), or it goes on as w2, or it returns when w2 is at "done":
\* {pr, session, clonePath} of request n, or nothing (n = 0) from close.
EndSegment(p, stop, issued, w2, n) ==
  IF stop # "none"
  THEN /\ wf' = [wf EXCEPT ![p] = Finished(FALSE)]
       /\ lastReturn' = Return(p, wf[p], FALSE, stop, issued, 0)
       /\ UNCHANGED returned
  ELSE IF w2.pc = "done"
       THEN /\ wf' = [wf EXCEPT ![p] = Finished(TRUE)]
            /\ lastReturn' = Return(p, w2, TRUE, "none", <<>>, n)
            /\ returned' = IF n = 0 THEN returned
                           ELSE returned \cup {Return(p, w2, TRUE, "none", <<>>, n)}
       ELSE /\ wf' = [wf EXCEPT ![p] = w2]
            /\ UNCHANGED <<lastReturn, returned>>

\* The caller of a workflow takes the result or the error.
CallerResumes ==
  /\ lastReturn # NoReturn
  /\ lastReturn' = NoReturn
  /\ UNCHANGED <<mockWrites, mockPRs, nextMockNumber, remotePRs, remoteBranches, dirs,
                 sessionName, clock, wf, returned>>
  /\ UNCHANGED <<discVars, notProvision>>

\* createNew(params): generateMetadata runs and returns the branch name; it has
\* a fallback and never throws
CreateNewCall(p, b) ==
  /\ NoPass /\ wf[p].pc = "idle" /\ NextSlot(p)
  /\ wf' = [wf EXCEPT ![p] = [NoWf EXCEPT !.kind = "createNew", !.pc = "metadata",
                                           !.branch = b,
                                           !.calls = <<"generateMetadata">>]]
  /\ UNCHANGED <<mockWrites, mockPRs, nextMockNumber, remotePRs, remoteBranches, dirs,
                 sessionName, clock, lastReturn, returned>>
  /\ UNCHANGED <<discVars, notProvision>>

\* createNew: the temporary clone, the branch, the empty commit, the push and
\* createPR run without suspension; stop is the call that throws, if any, and
\* made tells whether gh pr create had created the request when createPR threw.
\* git clone and git push take longer than the clock's resolution, so that no
\* two invocations name their clones by the same Date.now().  The push is --force-with-lease
\* from a clone without a remote-tracking ref of the branch: it is rejected when
\* the branch exists on the origin.
CreateNewClone(p, stop, made) ==
  LET w == wf[p]
      b == w.branch
      cloned == stop # "clone"
      pushed == stop \in {"createPR", "none"}
      created == stop = "none" \/ (stop = "createPR" /\ made)
      n == IF mockWrites THEN nextMockNumber ELSE NextRemoteNumber
  IN /\ NoPass /\ w.pc = "metadata"
     /\ made => stop = "createPR"
     /\ pushed => b \notin remoteBranches
     /\ stop = "createPR" => ~mockWrites
     /\ created => PRCount < MaxPRs
     /\ clock' = IF cloned THEN clock + 1 ELSE clock
     /\ dirs' = IF cloned THEN dirs \cup {Dir("temp", clock, p)} ELSE dirs
     /\ remoteBranches' = IF pushed THEN remoteBranches \cup {b} ELSE remoteBranches
     /\ IF created /\ mockWrites
        THEN /\ mockPRs' = Append(mockPRs, NewPR(n, b, TRUE))
             /\ nextMockNumber' = nextMockNumber + 1
             /\ UNCHANGED remotePRs
        ELSE IF created
             THEN /\ remotePRs' = Append(remotePRs, NewPR(n, b, TRUE))
                  /\ UNCHANGED <<mockPRs, nextMockNumber>>
             ELSE UNCHANGED <<mockPRs, nextMockNumber, remotePRs>>
     /\ EndSegment(p, stop, CallsUpTo(2, 7, stop),
                   [w EXCEPT !.pc = "created", !.temp = clock, !.pr = NewPR(n, b, TRUE),
                             !.calls = @ \o CallsUpTo(2, 7, stop)], 0)
     /\ UNCHANGED <<mockWrites, sessionName>>
     /\ UNCHANGED <<discVars, notProvision>>

\* createNew empties clonesDir of the final clones before it renames its own.
CreateNewRemoveOld_AllClones(p) ==
  LET n == wf[p].pr.number
  IN /\ NoPass /\ wf[p].kind = "createNew" /\ wf[p].pc = "created"
     /\ dirs' = {d \in dirs : d.kind = "temp"}
     /\ gitState' = [x \in SessionIds |->
                       IF x \in SessionsIn(n) /\ Exists("pr", n) THEN NoGit ELSE gitState[x]]
     /\ wf' = [wf EXCEPT ![p].pc = "renaming"]
     /\ UNCHANGED <<mockWrites, mockPRs, nextMockNumber, remotePRs, remoteBranches,
                    sessionName, clock, lastReturn, returned>>
     /\ UNCHANGED <<tmuxSessions, passVars, notProvision>>

\* createNew goes on to the rename without removing clonesDir/pr-<n>.
CreateNewRemoveOld_KeepsOld(p) ==
  /\ NoPass /\ wf[p].kind = "createNew" /\ wf[p].pc = "created"
  /\ wf' = [wf EXCEPT ![p].pc = "renaming"]
  /\ UNCHANGED <<mockWrites, mockPRs, nextMockNumber, remotePRs, remoteBranches, dirs,
                 sessionName, clock, lastReturn, returned>>
  /\ UNCHANGED <<discVars, notProvision>>

\* createNew: if (existsSync(clonePath)) rmSync(clonePath), then await import('fs')
CreateNewRemoveOld(p) ==
  LET n == wf[p].pr.number
  IN /\ NoPass /\ wf[p].kind = "createNew" /\ wf[p].pc = "created"
     /\ dirs' = dirs \ DirsAt("pr", n)
     /\ gitState' = [x \in SessionIds |->
                       IF x \in SessionsIn(n) /\ Exists("pr", n) THEN NoGit ELSE gitState[x]]
     /\ wf' = [wf EXCEPT ![p].pc = "renaming"]
     /\ UNCHANGED <<mockWrites, mockPRs, nextMockNumber, remotePRs, remoteBranches,
                    sessionName, clock, lastReturn, returned>>
     /\ UNCHANGED <<tmuxSessions, passVars, notProvision>>

\* createNew removes its clone when renameSync or tmux.create throws.
CreateNewRename_CleansUp(p, stop) ==
  LET w == wf[p]
      n == w.pr.number
      renamed == stop # "rename"
  IN /\ NoPass /\ w.kind = "createNew" /\ w.pc = "renaming"
     /\ stop \in {"rename", "createSession", "none"}
     /\ renamed => (Exists("temp", w.temp) /\ ~Exists("pr", n))
     /\ stop = "none" => ~SessionExists(n)
     /\ dirs' = IF stop = "none"
                THEN (dirs \ DirsAt("temp", w.temp))
                       \cup {Dir("pr", n, d.by) : d \in DirsAt("temp", w.temp)}
                ELSE dirs \ DirsAt("temp", w.temp)
     /\ IF stop = "none"
        THEN /\ tmuxSessions' = tmuxSessions \cup {p}
             /\ sessionName' = [sessionName EXCEPT ![p] = n]
             /\ gitState' = [gitState EXCEPT ![p] = [ok |-> TRUE, repo |-> RepoName,
                                                       branch |-> w.branch]]
        ELSE UNCHANGED <<tmuxSessions, sessionName, gitState>>
     /\ EndSegment(p, stop, CallsUpTo(8, 9, stop),
                   [w EXCEPT !.pc = "session", !.calls = @ \o CallsUpTo(8, 9, stop)], 0)
     /\ UNCHANGED <<mockWrites, mockPRs, nextMockNumber, remotePRs, remoteBranches, clock>>
     /\ UNCHANGED <<passVars, notProvision>>

\* createNew: renameSync(tempClonePath, clonePath) and tmux.create; stop is the
\* call that throws, if any.  renameSync throws when the temporary clone is
\* missing or the target exists; tmux new-session throws on a duplicate name.
CreateNewRename(p, stop) ==
  LET w == wf[p]
      n == w.pr.number
      renamed == stop # "rename"
  IN /\ NoPass /\ w.kind = "createNew" /\ w.pc = "renaming"
     /\ stop \in {"rename", "createSession", "none"}
     /\ renamed => (Exists("temp", w.temp) /\ ~Exists("pr", n))
     /\ stop = "none" => ~SessionExists(n)
     /\ dirs' = IF renamed
                THEN (dirs \ DirsAt("temp", w.temp))
                       \cup {Dir("pr", n, d.by) : d \in DirsAt("temp", w.temp)}
                ELSE dirs
     /\ IF stop = "none"
        THEN /\ tmuxSessions' = tmuxSessions \cup {p}
             /\ sessionName' = [sessionName EXCEPT ![p] = n]
             /\ gitState' = [gitState EXCEPT ![p] = [ok |-> TRUE, repo |-> RepoName,
                                                       branch |-> w.branch]]
        ELSE UNCHANGED <<tmuxSessions, sessionName, gitState>>
     /\ EndSegment(p, stop, CallsUpTo(8, 9, stop),
                   [w EXCEPT !.pc = "session", !.calls = @ \o CallsUpTo(8, 9, stop)], 0)
     /\ UNCHANGED <<mockWrites, mockPRs, nextMockNumber, remotePRs, remoteBranches, clock>>
     /\ UNCHANGED <<passVars, notProvision>>

\* createNew: handover.initialize (one tmux.sendKeys), then
\* return { pr, session, clonePath }
CreateNewHandover(p, stop) ==
  /\ NoPass /\ wf[p].kind = "createNew" /\ wf[p].pc = "session"
  /\ stop \in {"handover", "none"}
  /\ EndSegment(p, stop, <<"handover">>,
                [wf[p] EXCEPT !.pc = "done", !.calls = @ \o <<"handover">>],
                wf[p].pr.number)
  /\ UNCHANGED <<mockWrites, mockPRs, nextMockNumber, remotePRs, remoteBranches, dirs,
                 sessionName, clock>>
  /\ UNCHANGED <<discVars, notProvision>>

\* A number that no review request has.
UnknownNumber == MockBase - 1
\* The numbers a client may pass: those GitHub or the shadow store can assign, and
\* the unknown one.
AllNumbers == (1..MaxPRs) \cup (MockBase..(MockBase + MaxPRs - 1)) \cup {UnknownNumber}

\* setupExisting(prNumber): github.getPR runs; ghOk tells whether gh pr view
\* answered (getPR returns null when it did not)
SetupExistingCall(p, n, ghOk) ==
  /\ NoPass /\ wf[p].pc = "idle" /\ NextSlot(p)
  /\ n \in NumbersOf(mockPRs) \cup NumbersOf(remotePRs) \cup {UnknownNumber}
  /\ \A q \in Procs : wf[q].kind = "close" => wf[q].arg # n
  /\ wf' = [wf EXCEPT ![p] =
       [NoWf EXCEPT !.kind = "setupExisting", !.pc = "gotPR", !.arg = n,
                    !.pr = IF ghOk \/ (mockWrites /\ n \in NumbersOf(mockPRs))
                           THEN GetPR(n) ELSE NoPR,
                    !.calls = <<"getPR">>]]
  /\ UNCHANGED <<mockWrites, mockPRs, nextMockNumber, remotePRs, remoteBranches, dirs,
                 sessionName, clock, lastReturn, returned>>
  /\ UNCHANGED <<discVars, notProvision>>

\* setupExisting clones over a directory that exists.
SetupExistingClone_Overwrites(p, stop) ==
  LET w == wf[p]
      n == w.pr.number
      issued == IF stop \in {"notFound", "exists"} THEN <<>>
                ELSE IF stop = "clone" THEN <<"clone">>
                ELSE <<"clone", "createSession">>
  IN /\ NoPass /\ w.kind = "setupExisting" /\ w.pc = "gotPR"
     /\ stop \in {"notFound", "exists", "clone", "createSession", "none"}
     /\ stop = "notFound" <=> w.pr = NoPR
     /\ stop # "exists"
     /\ stop \in {"createSession", "none"} => w.pr.branch \in remoteBranches
     /\ stop = "none" => ~SessionExists(n)
     /\ dirs' = IF stop \in {"createSession", "none"}
                THEN dirs \cup {Dir("pr", n, p)}
                ELSE dirs
     /\ IF stop = "none"
        THEN /\ tmuxSessions' = tmuxSessions \cup {p}
             /\ sessionName' = [sessionName EXCEPT ![p] = n]
             /\ gitState' = [gitState EXCEPT ![p] = [ok |-> TRUE, repo |-> RepoName,
                                                       branch |-> w.pr.branch]]
        ELSE UNCHANGED <<tmuxSessions, sessionName, gitState>>
     /\ EndSegment(p, stop, issued, [w EXCEPT !.pc = "session", !.calls = @ \o issued], 0)
     /\ UNCHANGED <<mockWrites, mockPRs, nextMockNumber, remotePRs, remoteBranches, clock>>
     /\ UNCHANGED <<passVars, notProvision>>

\* setupExisting: the not-found and already-exists checks, git.clone at the
\* request's branch and tmux.create; stop is what throws, if anything
SetupExistingClone(p, stop) ==
  LET w == wf[p]
      n == w.pr.number
      issued == IF stop \in {"notFound", "exists"} THEN <<>>
                ELSE IF stop = "clone" THEN <<"clone">>
                ELSE <<"clone", "createSession">>
  IN /\ NoPass /\ w.kind = "setupExisting" /\ w.pc = "gotPR"
     /\ stop \in {"notFound", "exists", "clone", "createSession", "none"}
     /\ stop = "notFound" <=> w.pr = NoPR
     /\ w.pr # NoPR => (stop = "exists" <=> Exists("pr", n))
     /\ stop \in {"createSession", "none"} => w.pr.branch \in remoteBranches
     /\ stop = "none" => ~SessionExists(n)
     /\ dirs' = IF stop \in {"createSession", "none"}
                THEN dirs \cup {Dir("pr", n, p)}
                ELSE dirs
     /\ IF stop = "none"
        THEN /\ tmuxSessions' = tmuxSessions \cup {p}
             /\ sessionName' = [sessionName EXCEPT ![p] = n]
             /\ gitState' = [gitState EXCEPT ![p] = [ok |-> TRUE, repo |-> RepoName,
                                                       branch |-> w.pr.branch]]
        ELSE UNCHANGED <<tmuxSessions, sessionName, gitState>>
     /\ EndSegment(p, stop, issued, [w EXCEPT !.pc = "session", !.calls = @ \o issued], 0)
     /\ UNCHANGED <<mockWrites, mockPRs, nextMockNumber, remotePRs, remoteBranches, clock>>
     /\ UNCHANGED <<passVars, notProvision>>

\* setupExisting: handover.initialize, then return { pr, session, clonePath }
SetupExistingHandover(p, stop) ==
  /\ NoPass /\ wf[p].kind = "setupExisting" /\ wf[p].pc = "session"
  /\ stop \in {"handover", "none"}
  /\ EndSegment(p, stop, <<"handover">>,
                [wf[p] EXCEPT !.pc = "done", !.calls = @ \o <<"handover">>],
                wf[p].pr.number)
  /\ UNCHANGED <<mockWrites, mockPRs, nextMockNumber, remotePRs, remoteBranches, dirs,
                 sessionName, clock>>
  /\ UNCHANGED <<discVars, notProvision>>

\* createFromBranch(params): github.createPR for the existing branch, not a
\* draft; made tells whether gh pr create had created the request when createPR
\* threw
CreateFromBranchCall(p, b, stop, made) ==
  LET created == stop = "none" \/ made
      n == IF mockWrites THEN nextMockNumber ELSE NextRemoteNumber
      w2 == [NoWf EXCEPT !.kind = "createFromBranch", !.pc = "prCreated", !.branch = b,
                         !.pr = NewPR(n, b, FALSE), !.calls = <<"createPR">>]
  IN /\ NoPass /\ wf[p].pc = "idle" /\ NextSlot(p)
     /\ stop \in {"createPR", "none"}
     /\ made => stop = "createPR"
     /\ stop = "createPR" => ~mockWrites
     /\ (created /\ ~mockWrites) => b \in remoteBranches
     /\ created => PRCount < MaxPRs
     /\ IF created /\ mockWrites
        THEN /\ mockPRs' = Append(mockPRs, NewPR(n, b, FALSE))
             /\ nextMockNumber' = nextMockNumber + 1
             /\ UNCHANGED remotePRs
        ELSE IF created
             THEN /\ remotePRs' = Append(remotePRs, NewPR(n, b, FALSE))
                  /\ UNCHANGED <<mockPRs, nextMockNumber>>
             ELSE UNCHANGED <<mockPRs, nextMockNumber, remotePRs>>
     /\ IF stop = "none"
        THEN wf' = [wf EXCEPT ![p] = w2] /\ UNCHANGED lastReturn
        ELSE /\ wf' = [wf EXCEPT ![p] = Finished(FALSE)]
             /\ lastReturn' = Return(p, [NoWf EXCEPT !.kind = "createFromBranch",
                                                     !.branch = b],
                                     FALSE, stop, <<"createPR">>, 0)
     /\ UNCHANGED <<mockWrites, remoteBranches, dirs, sessionName, clock, returned>>
     /\ UNCHANGED <<discVars, notProvision>>

\* createFromBranch: the already-exists check, git.clone at the branch and
\* tmux.create; stop is what throws, if anything
CreateFromBranchClone(p, stop) ==
  LET w == wf[p]
      n == w.pr.number
      issued == IF stop = "exists" THEN <<>>
                ELSE IF stop = "clone" THEN <<"clone">>
                ELSE <<"clone", "createSession">>
  IN /\ NoPass /\ w.kind = "createFromBranch" /\ w.pc = "prCreated"
     /\ stop \in {"exists", "clone", "createSession", "none"}
     /\ stop = "exists" <=> Exists("pr", n)
     /\ stop \in {"createSession", "none"} => w.branch \in remoteBranches
     /\ stop = "none" => ~SessionExists(n)
     /\ dirs' = IF stop \in {"createSession", "none"}
                THEN dirs \cup {Dir("pr", n, p)}
                ELSE dirs
     /\ IF stop = "none"
        THEN /\ tmuxSessions' = tmuxSessions \cup {p}
             /\ sessionName' = [sessionName EXCEPT ![p] = n]
             /\ gitState' = [gitState EXCEPT ![p] = [ok |-> TRUE, repo |-> RepoName,
                                                       branch |-> w.branch]]
        ELSE UNCHANGED <<tmuxSessions, sessionName, gitState>>
     /\ EndSegment(p, stop, issued, [w EXCEPT !.pc = "session", !.calls = @ \o issued], 0)
     /\ UNCHANGED <<mockWrites, mockPRs, nextMockNumber, remotePRs, remoteBranches, clock>>
     /\ UNCHANGED <<passVars, notProvision>>

\* createFromBranch: handover.initialize, then return { pr, session, clonePath }
CreateFromBranchHandover(p, stop) ==
  /\ NoPass /\ wf[p].kind = "createFromBranch" /\ wf[p].pc = "session"
  /\ stop \in {"handover", "none"}
  /\ EndSegment(p, stop, <<"handover">>,
                [wf[p] EXCEPT !.pc = "done", !.calls = @ \o <<"handover">>],
                wf[p].pr.number)
  /\ UNCHANGED <<mockWrites, mockPRs, nextMockNumber, remotePRs, remoteBranches, dirs,
                 sessionName, clock>>
  /\ UNCHANGED <<discVars, notProvision>>

\* A workflow for request n is running.
WorkflowFor(n) ==
  \E q \in Procs : /\ wf[q].pc \notin {"idle", "done", "failed"}
                   /\ (wf[q].arg = n \/ wf[q].pr.number = n)

\* close removes the clone directory although closePR threw.
CloseCall_CleansAnyway(p, n, ok) ==
  /\ NoPass /\ wf[p].pc = "idle" /\ NextSlot(p)
  /\ n \in NumbersOf(mockPRs) \cup NumbersOf(remotePRs) \cup {UnknownNumber}
  /\ ~WorkflowFor(n)
  /\ mockWrites => ok
  /\ (~mockWrites /\ ok) => n \in NumbersOf(remotePRs)
  /\ IF mockWrites
     THEN mockPRs' = WithState(mockPRs, n, "CLOSED") /\ UNCHANGED remotePRs
     ELSE IF ok
          THEN remotePRs' = WithState(remotePRs, n, "CLOSED") /\ UNCHANGED mockPRs
          ELSE UNCHANGED <<mockPRs, remotePRs>>
  /\ IF ok
     THEN /\ wf' = [wf EXCEPT ![p] = [NoWf EXCEPT !.kind = "close", !.pc = "closed",
                                                  !.arg = n, !.calls = <<"closePR">>]]
          /\ returned' = {r \in returned : r.pr.number # n}
          /\ UNCHANGED lastReturn
     ELSE /\ wf' = [wf EXCEPT ![p] = Finished(FALSE)]
          /\ lastReturn' = Return(p, [NoWf EXCEPT !.kind = "close", !.arg = n], FALSE,
                                  "closePR", <<"closePR">>, 0)
          /\ UNCHANGED returned
  /\ dirs' = IF ok THEN dirs ELSE dirs \ DirsAt("pr", n)
  /\ UNCHANGED <<mockWrites, nextMockNumber, remoteBranches, sessionName, clock>>
  /\ UNCHANGED <<discVars, notProvision>>

\* close(prNumber): github.closePR runs; ok tells whether gh pr close succeeded
\* (the shadow store never fails, and ignores a number it does not hold).  A
\* teardown of request n is called when no workflow for n is running; what the
\* workflows returned for n is dropped from returned.
CloseCall(p, n, ok) ==
  /\ NoPass /\ wf[p].pc = "idle" /\ NextSlot(p)
  /\ n \in NumbersOf(mockPRs) \cup NumbersOf(remotePRs) \cup {UnknownNumber}
  /\ ~WorkflowFor(n)
  /\ mockWrites => ok
  /\ (~mockWrites /\ ok) => n \in NumbersOf(remotePRs)
  /\ IF mockWrites
     THEN mockPRs' = WithState(mockPRs, n, "CLOSED") /\ UNCHANGED remotePRs
     ELSE IF ok
          THEN remotePRs' = WithState(remotePRs, n, "CLOSED") /\ UNCHANGED mockPRs
          ELSE UNCHANGED <<mockPRs, remotePRs>>
  /\ IF ok
     THEN /\ wf' = [wf EXCEPT ![p] = [NoWf EXCEPT !.kind = "close", !.pc = "closed",
                                                  !.arg = n, !.calls = <<"closePR">>]]
          /\ returned' = {r \in returned : r.pr.number # n}
          /\ UNCHANGED lastReturn
     ELSE /\ wf' = [wf EXCEPT ![p] = Finished(FALSE)]
          /\ lastReturn' = Return(p, [NoWf EXCEPT !.kind = "close", !.arg = n], FALSE,
                                  "closePR", <<"closePR">>, 0)
          /\ UNCHANGED returned
  /\ UNCHANGED <<mockWrites, nextMockNumber, remoteBranches, dirs, sessionName, clock>>
  /\ UNCHANGED <<discVars, notProvision>>

\* close: await this.tmux.exists(sessionId); the answer is kept in temp (1: the
\* session exists)
CloseExists(p) ==
  /\ NoPass /\ wf[p].kind = "close" /\ wf[p].pc = "closed"
  /\ wf' = [wf EXCEPT ![p] = [@ EXCEPT !.pc = "checked",
                                       !.temp = IF SessionExists(wf[p].arg) THEN 1 ELSE 0,
                                       !.calls = @ \o <<"exists">>]]
  /\ UNCHANGED <<mockWrites, mockPRs, nextMockNumber, remotePRs, remoteBranches, dirs,
                 sessionName, clock, lastReturn, returned>>
  /\ UNCHANGED <<discVars, notProvision>>

\* close: the session was found: await this.tmux.kill(sessionId), which throws
\* when tmux kill-session fails
CloseKill(p, stop) ==
  LET n == wf[p].arg
  IN /\ NoPass /\ wf[p].kind = "close" /\ wf[p].pc = "checked" /\ wf[p].temp = 1
     /\ stop \in {"kill", "none"}
     /\ stop = "none" => SessionExists(n)
     /\ IF stop = "none"
        THEN /\ tmuxSessions' = tmuxSessions \ SessionsIn(n)
             /\ sessionName' = [x \in SessionIds |->
                                  IF x \in SessionsIn(n) THEN 0 ELSE sessionName[x]]
             /\ gitState' = [x \in SessionIds |->
                               IF x \in SessionsIn(n) THEN NoGit ELSE gitState[x]]
        ELSE UNCHANGED <<tmuxSessions, sessionName, gitState>>
     /\ EndSegment(p, stop, <<"kill">>,
                   [wf[p] EXCEPT !.pc = "killed", !.calls = @ \o <<"kill">>], 0)
     /\ UNCHANGED <<mockWrites, mockPRs, nextMockNumber, remotePRs, remoteBranches, dirs,
                    clock>>
     /\ UNCHANGED <<passVars, notProvision>>

\* close: if (existsSync(clonePath)) rmSync(clonePath, {recursive, force}), and
\* the return; it follows the kill, or the exists check when no session was found
CloseRemove(p) ==
  LET n == wf[p].arg
  IN /\ NoPass /\ wf[p].kind = "close"
     /\ \/ wf[p].pc = "killed"
        \/ wf[p].pc = "checked" /\ wf[p].temp = 0
     /\ dirs' = dirs \ DirsAt("pr", n)
     /\ gitState' = [x \in SessionIds |->
                       IF x \in SessionsIn(n) /\ Exists("pr", n) THEN NoGit ELSE gitState[x]]
     /\ EndSegment(p, "none", <<>>, [wf[p] EXCEPT !.pc = "done"], 0)
     /\ UNCHANGED <<mockWrites, mockPRs, nextMockNumber, remotePRs, remoteBranches,
                    sessionName, clock>>
     /\ UNCHANGED <<tmuxSessions, passVars, notProvision>>

\* discover() of the sessions the workflows left: listPRs answers from the stores
ProvDiscoverCall ==
  /\ DiscoverCall
  /\ lastReturn = NoReturn
  /\ Quiet
ProvDiscoverFetch == DiscoverFetch /\ mockWrites \in BOOLEAN
ProvListPRsResolve(r) == ListPRsResolve(r, ListPRs(r))
\* the real listing fails: the shadow requests alone in mock mode, a rejection otherwise
ProvListPRsRealFails(r) ==
  IF mockWrites THEN ListPRsResolve(r, MockPRsOf(r)) ELSE ListPRsReject(r)
ProvDiscoverAssemble == DiscoverAssemble /\ mockWrites \in BOOLEAN

\* The services after construction, with nothing under clonesDir.
ServicesIdle ==
  /\ mockPRs = <<>>
  /\ nextMockNumber = MockBase
  /\ dirs = {}
  /\ sessionName = [x \in SessionIds |-> 0]
  /\ clock = 1
  /\ wf = [p \in Procs |-> NoWf]
  /\ lastReturn = NoReturn
  /\ returned = {}

\* ... and a repository without review requests.
ProvIdle ==
  /\ ServicesIdle
  /\ remotePRs = <<>>
  /\ remoteBranches = {}

\* The request and its branch that the repository has before the services start.
OldPR == NewPR(1, "feat", FALSE)

\* ------------------------------------------------------------ entry points

\* The characters of the identifiers and of the task texts that are passed in.
IdChars == {"-", "0", "7", "a"}
PromptChars == {" ", "x"}
Digits == {"0", "7"}
DigitValue(c) == IF c = "7" THEN 7 ELSE 0

\* The number a sequence of decimal digits denotes.
RECURSIVE DigitsValue(_)
DigitsValue(ds) ==
  IF ds = <<>> THEN 0
  ELSE 10 * DigitsValue(SubSeq(ds, 1, Len(ds) - 1)) + DigitValue(ds[Len(ds)])

\* The longest initial part of a text that consists of digits.
DigitPrefix(t) ==
  LET k == CHOOSE k \in 0..Len(t) :
             /\ \A i \in 1..k : t[i] \in Digits
             /\ k = Len(t) \/ t[k + 1] \notin Digits
  IN SubSeq(t, 1, k)

\* parseInt(text): an optional sign and the digits that follow, whatever comes
\* after them; NaN when no digit follows.
NaN == [nan |-> TRUE, value |-> 0]
ParseInt(t) ==
  LET neg == t # <<>> /\ t[1] = "-"
      ds == DigitPrefix(IF neg THEN Tail(t) ELSE t)
  IN IF ds = <<>> THEN NaN
     ELSE [nan |-> FALSE, value |-> IF neg THEN 0 - DigitsValue(ds) ELSE DigitsValue(ds)]

\* String.prototype.trim over the blank
RECURSIVE Trim(_)
Trim(t) ==
  IF t = <<>> THEN t
  ELSE IF t[1] = " " THEN Trim(Tail(t))
  ELSE IF t[Len(t)] = " " THEN Trim(SubSeq(t, 1, Len(t) - 1))
  ELSE t

\* The entry points that take a review-request identifier or a task text.
IdEntries == {"POST /api/setup/:prNumber", "POST /api/close/:prNumber", "mfh setup",
              "mfh close"}
PromptEntries == {"POST /api/new", "mfh new"}
\* The calls of the entry points; an Express route parameter is never empty.
EntryRequests ==
  {[fn |-> f, arg |-> t] : f \in PromptEntries, t \in Texts(PromptChars)}
    \cup {r \in {[fn |-> f, arg |-> t] : f \in IdEntries, t \in Texts(IdChars)} :
            r.fn \in {"POST /api/setup/:prNumber", "POST /api/close/:prNumber"} =>
              r.arg # <<>>}

\* The entry point answers 400 / exits with status 1 before it calls a workflow.
Rejected == [status |-> "rejected"]
\* The entry point calls the workflow, whose first statement calls a port.
Called(workflow, arg) == [status |-> "called", workflow |-> workflow, arg |-> arg]

\* The handler of an identifier route of the HTTP API
ApiId(fn, workflow) ==
  LET prNumber == ParseInt(request.arg)
  IN /\ request.fn = fn /\ response = NoResponse
     /\ response' = IF prNumber.nan \/ prNumber.value <= 0
                    THEN Rejected
                    ELSE Called(workflow, prNumber.value)
     /\ UNCHANGED <<request, notCall>>

\* The case of an identifier command in main() of the CLI
CliId(fn, workflow) ==
  LET prNumber == ParseInt(request.arg)
  IN /\ request.fn = fn /\ response = NoResponse
     /\ response' = IF prNumber.nan THEN Rejected ELSE Called(workflow, prNumber.value)
     /\ UNCHANGED <<request, notCall>>

\* POST /api/new
ApiNew ==
  /\ request.fn = "POST /api/new" /\ response = NoResponse
  /\ response' = IF request.arg = <<>> \/ Len(Trim(request.arg)) = 0
                 THEN Rejected
                 ELSE Called("createNew", Trim(request.arg))
  /\ UNCHANGED <<request, notCall>>

\* POST /api/setup/:prNumber
ApiSetup == ApiId("POST /api/setup/:prNumber", "setupExisting")
\* POST /api/close/:prNumber
ApiClose == ApiId("POST /api/close/:prNumber", "close")

\* mfh new <prompt>
CliNew ==
  /\ request.fn = "mfh new" /\ response = NoResponse
  /\ response' = IF request.arg = <<>> THEN Rejected ELSE Called("createNew", request.arg)
  /\ UNCHANGED <<request, notCall>>

\* mfh setup <pr-number>
CliSetup == CliId("mfh setup", "setupExisting")
\* mfh close <pr-number>
CliClose == CliId("mfh close", "close")

\* ---------------------------------------------------------- ClaudeService
\* title.substring(0, 72)
TitleMax == 72
Substring(t, n) == SubSeq(t, 1, IF n < Len(t) THEN n ELSE Len(t))

\* The task texts tried: up to MaxLen of a letter, a word of LongLen letters, a
\* space, a full stop and a newline.
LongWord == [k \in 1..LongLen |-> "b"]
TaskSymbols == {"a", "long", " ", ".", "\n"}
RECURSIVE Expand(_)
Expand(t) ==
  IF t = <<>> THEN <<>>
  ELSE (IF Head(t) = "long" THEN LongWord ELSE <<Head(t)>>) \o Expand(Tail(t))
Prompts == {Expand(t) : t \in Texts(TaskSymbols)}

\* What execSync of the claude command does: it throws (the command fails or
\* passes the 30 s timeout) or returns output, here lines "LABEL:value" with
\* distinct labels and a value that is empty or not.
Labels == {"BRANCH", "TITLE", "BODY"}
OutputLines == [label : Labels, value : {<<>>, <<"v">>}]
Outputs ==
  {o \in UNION {[1..n -> OutputLines] : n \in 0..Cardinality(Labels)} :
     \A i, j \in 1..Len(o) : o[i].label = o[j].label => i = j}
Outcomes ==
  {[kind |-> "failed", lines |-> <<>>], [kind |-> "timeout", lines |-> <<>>]}
  \cup {[kind |-> "output", lines |-> o] : o \in Outputs}
\* Date.now() at the fallback, in milliseconds since the service was started
Stamps == {7, 70}

LineText(line) == <<line.label, ":">> \o line.value
NoMatch == <<"null">>
\* output.match(/LABEL:\s*(.+)/)[1]: the rest of the first line with the label,
\* or, when that is empty, the next line (\s* runs over the line end); no
\* match when nothing follows the label
Match(lines, label) ==
  LET at == {k \in 1..Len(lines) : lines[k].label = label}
  IN IF at = {} THEN NoMatch
     ELSE LET k == CHOOSE i \in at : TRUE
          IN IF lines[k].value # <<>> THEN lines[k].value
             ELSE IF k < Len(lines) THEN LineText(lines[k + 1])
             ELSE NoMatch

Thrown == [status |-> "threw"]
\* the try block: the command's output parsed, or what is thrown
ParseOutput(outcome) ==
  LET branchMatch == Match(outcome.lines, "BRANCH")
      titleMatch == Match(outcome.lines, "TITLE")
      bodyMatch == Match(outcome.lines, "BODY")
  IN IF outcome.kind # "output" THEN Thrown
     ELSE IF NoMatch \in {branchMatch, titleMatch, bodyMatch} THEN Thrown
     ELSE [status |-> "returned", branchName |-> Trim(branchMatch),
           title |-> Substring(Trim(titleMatch), TitleMax), body |-> Trim(bodyMatch)]

Punctuation == {".", "!", "?", "\n"}
\* prompt.split(/[.!?\n]/)[0]
FirstClause(prompt) ==
  LET stops == {k \in 1..Len(prompt) : prompt[k] \in Punctuation}
  IN IF stops = {} THEN prompt
     ELSE SubSeq(prompt, 1, (CHOOSE k \in stops : \A j \in stops : k <= j) - 1)

\* the catch block
Fallback(prompt, timestamp) ==
  [status |-> "returned",
   branchName |-> <<"ad/feat/task-", ToString(timestamp)>>,
   title |-> Substring(<<"f", "e", "a", "t", ":", " ">> \o Trim(FirstClause(prompt)),
                       TitleMax),
   body |-> <<"Working on: ">> \o prompt]

\* generateMetadata lets the parse error out of the try block.
GenerateMetadata_ParseErrorEscapes(prompt, outcome, timestamp) ==
  IF outcome.kind # "output" THEN Fallback(prompt, timestamp) ELSE ParseOutput(outcome)

\* generateMetadata(prompt): try, and on anything thrown the fallback; the two
\* variants of the service differ in the command line only
GenerateMetadata(prompt, outcome, timestamp) ==
  IF ParseOutput(outcome) = Thrown THEN Fallback(prompt, timestamp)
  ELSE ParseOutput(outcome)

MetadataRequests == {[fn |-> "generateMetadata", prompt |-> t] : t \in Prompts}

GenerateMetadataCall ==
  /\ request.fn = "generateMetadata" /\ response = NoResponse
  /\ \E outcome \in Outcomes, timestamp \in Stamps :
       response' = [status |-> "settled", outcome |-> outcome, timestamp |-> timestamp,
                    value |-> GenerateMetadata(request.prompt, outcome, timestamp)]
  /\ UNCHANGED <<request, notCall>>

\* ---------------------------------------------------------------- parseRepo
\* The remotes tried, as texts: a scheme or user part, a host, a separator, the
\* owner, a slash, the repository name and an optional ".git".  Owner names are
\* made of letters, repository names of letters and inner dots.
OwnerNames == Texts({"o"}) \ {<<>>}
RepoNames == {t \in Texts({"r", "."}) : t # <<>> /\ t[1] = "r" /\ t[Len(t)] = "r"}
RemoteParts ==
  [lead : {<<"https://">>, <<"git@">>, <<"https://", "not">>},
   host : {"github.com", "gitlab.com"},
   sep : {":", "/"},
   owner : OwnerNames,
   repo : RepoNames,
   dotGit : BOOLEAN]
RemoteText(r) ==
  r.lead \o <<r.host, r.sep>> \o r.owner \o <<"/">> \o r.repo
  \o (IF r.dotGit THEN <<".", "git">> ELSE <<>>)

\* The capture of /github\.com[:/]([^/]+\/[^/.]+)/ that starts after position
\* i of the remote, if the match can start at i: the characters up to the next
\* slash, the slash, and the characters after it up to a slash, a dot or the end
CaptureAt(remote, i) ==
  LET slashes == {k \in (i + 2)..Len(remote) : remote[k] = "/"}
      slash == CHOOSE k \in slashes : \A j \in slashes : k <= j
      ends == {k \in (slash + 1)..(Len(remote) + 1) :
                 k = Len(remote) + 1 \/ remote[k] \in {"/", "."}}
      end == CHOOSE k \in ends : \A j \in ends : k <= j
  IN IF /\ i + 1 <= Len(remote)
        /\ remote[i] = "github.com" /\ remote[i + 1] \in {":", "/"}
        /\ slashes # {} /\ slash > i + 2
        /\ end > slash + 1
     THEN SubSeq(remote, i + 2, end - 1)
     ELSE <<>>

\* match[1].replace(/\.git$/, '')
WithoutDotGit(t) ==
  IF Len(t) >= 2 /\ t[Len(t) - 1] = "." /\ t[Len(t)] = "git"
  THEN SubSeq(t, 1, Len(t) - 2)
  ELSE t

\* parseRepo(remote): the first match in the remote, or the error
ParseRepo(remote) ==
  LET starts == {i \in 1..Len(remote) : CaptureAt(remote, i) # <<>>}
  IN IF starts = {} THEN [status |-> "threw"]
     ELSE [status |-> "returned",
           value |-> WithoutDotGit(CaptureAt(remote,
                                             CHOOSE i \in starts : \A j \in starts : i <= j))]

RepoRequests == {[fn |-> "parseRepo", parts |-> r] : r \in RemoteParts}

ParseRepoCall ==
  /\ request.fn = "parseRepo" /\ response = NoResponse
  /\ response' = ParseRepo(RemoteText(request.parts))
  /\ UNCHANGED <<request, notCall>>

\* ------------------------------------------- GitHubService, the shadow store
\* The store on its own, for several repositories: mockPRs holds the requests of
\* all per-repository lists in the order of their creation.

\* this.mockPRs.get(repo) || [], with the requests of every repository kept
ShadowOf(repo) == SelectSeq(mockPRs, LAMBDA pr : pr.repo = repo)

\* getPR(repo, number) in simulated-write mode when gh pr view finds nothing
ShadowGetPR(repo, n) ==
  LET prs == ShadowOf(repo)
      found == {k \in 1..Len(prs) : prs[k].number = n}
  IN IF mockWrites /\ found # {}
     THEN prs[CHOOSE k \in found : \A j \in found : k <= j]
     ELSE NoPR

\* createPRMock does not advance nextMockNumber.
ShadowCreatePR_NoIncrement(repo, b, d) ==
  /\ mockWrites /\ Len(mockPRs) < MaxPRs
  /\ mockPRs' = Append(mockPRs,
                  [number |-> nextMockNumber, branch |-> b, repo |-> repo,
                   state |-> "OPEN", draft |-> d,
                   url |-> <<"https://github.com/", repo, "/pull/",
                             ToString(nextMockNumber)>>])
  /\ UNCHANGED <<nextMockNumber, mockWrites, remotePRs, remoteBranches, dirs, sessionName,
                 clock, wf, lastReturn, returned>>
  /\ UNCHANGED <<discVars, notProvision>>

\* createPRMock(params): number is nextMockNumber++, and the url is built from
\* nextMockNumber - 1 after the increment
ShadowCreatePR(repo, b, d) ==
  /\ mockWrites /\ Len(mockPRs) < MaxPRs
  /\ nextMockNumber' = nextMockNumber + 1
  /\ mockPRs' = Append(mockPRs,
                  [number |-> nextMockNumber, branch |-> b, repo |-> repo,
                   state |-> "OPEN", draft |-> d,
                   url |-> <<"https://github.com/", repo, "/pull/",
                             ToString(nextMockNumber' - 1)>>])
  /\ UNCHANGED <<mockWrites, remotePRs, remoteBranches, dirs, sessionName, clock, wf,
                 lastReturn, returned>>
  /\ UNCHANGED <<discVars, notProvision>>

\* updatePR(repo, number, {state}) and closePR(repo, number) of the shadow
\* store: the request of that repository with that number, if any
ShadowSetState(repo, n, st) ==
  /\ mockWrites
  /\ mockPRs' = [k \in 1..Len(mockPRs) |->
                   IF mockPRs[k].repo = repo /\ mockPRs[k].number = n
                   THEN [mockPRs[k] EXCEPT !.state = st]
                   ELSE mockPRs[k]]
  /\ UNCHANGED <<nextMockNumber, mockWrites, remotePRs, remoteBranches, dirs, sessionName,
                 clock, wf, lastReturn, returned>>
  /\ UNCHANGED <<discVars, notProvision>>
ShadowUpdatePR(repo, n, st) == ShadowSetState(repo, n, IF st = "closed" THEN "CLOSED" ELSE "OPEN")
ShadowClosePR(repo, n) == ShadowSetState(repo, n, "CLOSED")

\* clearMockPRs()
ClearMockPRs ==
  /\ mockPRs' = <<>>
  /\ nextMockNumber' = MockBase
  /\ UNCHANGED <<mockWrites, remotePRs, remoteBranches, dirs, sessionName, clock, wf,
                 lastReturn, returned>>
  /\ UNCHANGED <<discVars, notProvision>>

\* ------------------------------------------ the WebSocket terminal handlers
\* Number of tmux attach processes the handlers may spawn in one behaviour.
MaxAttach == 3

Sockets == {1, 2}
AttachIds == 1..MaxAttach

\* config.sessionPrefix, and the session ids a client may name, as texts: a
\* session of mainframehub, a session of another tool, a session tmux does not
\* hold, and no id.
SessionPrefix == <<"m", "f", "h", "-">>
PrefixedId == SessionPrefix \o <<"1">>
ForeignId == <<"d", "e", "v">>
MissingId == SessionPrefix \o <<"9">>
NoId == <<>>
AttachRequests == {PrefixedId, ForeignId, MissingId, NoId}
\* tmux.exists(id): tmux has-session -t id
TmuxHas(id) == id \in {PrefixedId, ForeignId}

\* A connection: ws.readyState and the handler whose listeners it carries.
NoSocket == [state |-> "none", handler |-> "none"]
\* A spawned process: whether it runs, the connection and session it was
\* spawned for, ChildProcess.killed, and the handler that spawned it.
NoProc == [state |-> "unused", ws |-> 0, sessionId |-> NoId, killed |-> FALSE,
           via |-> "none"]
Spawned(s, id, via) ==
  [state |-> "alive", ws |-> s, sessionId |-> id, killed |-> FALSE, via |-> via]
\* What a handler sent to the client or wrote to a process.
Sent(kind, proc, text) == [kind |-> kind, proc |-> proc, text |-> text]
NoOut == Sent("none", 0, "")

TermIdle ==
  /\ sockets = [s \in Sockets |-> NoSocket]
  /\ activeSessions = [s \in Sockets |-> 0]
  /\ terminalSessions = [id \in AttachRequests |-> 0]
  /\ attachProcs = [p \in AttachIds |-> NoProc]
  /\ termOut = NoOut

UnusedProcs == {p \in AttachIds : attachProcs[p].state = "unused"}
\* The processes are numbered in the order in which they are spawned.
NewProc == CHOOSE p \in UnusedProcs : \A q \in UnusedProcs : p <= q

\* process.kill('SIGTERM'): the signal is sent to a running process and
\* process.killed becomes true; the process exits later.
Kill(procs, p) ==
  IF p # 0 /\ procs[p].state = "alive" /\ ~procs[p].killed
  THEN [procs EXCEPT ![p].killed = TRUE]
  ELSE procs

\* cleanupSession(ws): the processes after it
CleanupSession(s) == Kill(attachProcs, activeSessions[s])

\* wss.on('connection') of setupWebSocket
WsConnection(s) ==
  /\ sockets[s].state = "none"
  /\ sockets' = [sockets EXCEPT ![s] = [state |-> "open", handler |-> "websocket"]]
  /\ termOut' = NoOut
  /\ UNCHANGED <<activeSessions, terminalSessions, attachProcs>>
  /\ UNCHANGED notTerminal

\* handleAttach(ws, message, tmux).  tmux.exists runs has-session with execSync,
\* so its await resumes before any other event of the socket or of a process.
HandleAttach(s, id) ==
  /\ sockets[s] = [state |-> "open", handler |-> "websocket"]
  /\ id \in AttachRequests
  /\ IF id = NoId
     THEN /\ termOut' = Sent("error", 0, "sessionId is required for attach")
          /\ UNCHANGED <<activeSessions, attachProcs>>
     ELSE IF ~TmuxHas(id)
     THEN /\ termOut' = Sent("error", 0, "Session does not exist")
          /\ UNCHANGED <<activeSessions, attachProcs>>
     ELSE /\ UnusedProcs # {}
          /\ attachProcs' = [CleanupSession(s) EXCEPT ![NewProc] = Spawned(s, id, "message")]
          /\ activeSessions' = [activeSessions EXCEPT ![s] = NewProc]
          /\ termOut' = Sent("spawn", NewProc, "")
  /\ UNCHANGED <<sockets, terminalSessions>>
  /\ UNCHANGED notTerminal

\* handleInput(ws, message)
HandleInput(s, hasData) ==
  /\ sockets[s] = [state |-> "open", handler |-> "websocket"]
  /\ termOut' = IF activeSessions[s] = 0 THEN Sent("error", 0, "No active session")
                ELSE IF ~hasData THEN Sent("error", 0, "data is required for input")
                ELSE Sent("write", activeSessions[s], "data")
  /\ UNCHANGED <<sockets, activeSessions, terminalSessions, attachProcs>>
  /\ UNCHANGED notTerminal

\* handleResize(ws, message)
HandleResize(s, hasSize) ==
  /\ sockets[s] = [state |-> "open", handler |-> "websocket"]
  /\ termOut' = IF activeSessions[s] = 0 THEN Sent("error", 0, "No active session")
                ELSE IF ~hasSize
                     THEN Sent("error", 0, "cols and rows are required for resize")
                     ELSE Sent("write", activeSessions[s], "resize")
  /\ UNCHANGED <<sockets, activeSessions, terminalSessions, attachProcs>>
  /\ UNCHANGED notTerminal

\* handleMessage: a message of any other type
HandleUnknown(s) ==
  /\ sockets[s] = [state |-> "open", handler |-> "websocket"]
  /\ termOut' = Sent("error", 0, "Unknown message type")
  /\ UNCHANGED <<sockets, activeSessions, terminalSessions, attachProcs>>
  /\ UNCHANGED notTerminal

\* ws.on('close') of setupWebSocket
WsClose(s) ==
  /\ sockets[s] = [state |-> "open", handler |-> "websocket"]
  /\ sockets' = [sockets EXCEPT ![s].state = "closed"]
  /\ attachProcs' = CleanupSession(s)
  /\ activeSessions' = [activeSessions EXCEPT ![s] = 0]
  /\ termOut' = Sent("cleanup", activeSessions[s], "")
  /\ UNCHANGED terminalSessions
  /\ UNCHANGED notTerminal

\* ws.on('error') of setupWebSocket
WsError(s) ==
  /\ sockets[s] = [state |-> "open", handler |-> "websocket"]
  /\ attachProcs' = CleanupSession(s)
  /\ activeSessions' = [activeSessions EXCEPT ![s] = 0]
  /\ termOut' = Sent("cleanup", activeSessions[s], "")
  /\ UNCHANGED <<sockets, terminalSessions>>
  /\ UNCHANGED notTerminal

\* proc.on('exit') and proc.on('error') of handleAttach: the process has ended
\* (by itself, or after the signal), or it could not be started
AttachProcEnds(p, event) ==
  /\ attachProcs[p].state = "alive" /\ attachProcs[p].via = "message"
  /\ event \in {"exit", "error"}
  /\ event = "error" => ~attachProcs[p].killed
  /\ attachProcs' = [attachProcs EXCEPT ![p].state = "exited"]
  /\ activeSessions' = [activeSessions EXCEPT ![attachProcs[p].ws] = 0]
  /\ termOut' = IF sockets[attachProcs[p].ws].state = "open"
                THEN Sent(event, p, "") ELSE NoOut
  /\ UNCHANGED <<sockets, terminalSessions>>
  /\ UNCHANGED notTerminal

\* The pty of a connection of the terminal handler (the ptyProcess of its closure).
OwnPty(s) ==
  IF \E p \in AttachIds : attachProcs[p].ws = s /\ attachProcs[p].via = "connection"
  THEN CHOOSE p \in AttachIds : attachProcs[p].ws = s /\ attachProcs[p].via = "connection"
  ELSE 0

\* wss.on('connection') of setupTerminalWebSocket: the session id and the token
\* of the URL, validateWebSocketToken and pty.spawn
TerminalConnection(s, id, tokenValid, spawns) ==
  /\ sockets[s].state = "none"
  /\ id \in AttachRequests
  /\ IF id = NoId \/ ~tokenValid \/ ~spawns
     THEN /\ sockets' = [sockets EXCEPT ![s] = [state |-> "closed", handler |-> "terminal"]]
          /\ termOut' = Sent("close", 0,
                             IF id = NoId THEN "Session ID required"
                             ELSE IF ~tokenValid THEN "Invalid or missing GitHub token"
                             ELSE "Failed to attach to session")
          /\ UNCHANGED <<terminalSessions, attachProcs>>
     ELSE /\ UnusedProcs # {}
          /\ attachProcs' = [attachProcs EXCEPT ![NewProc] = Spawned(s, id, "connection")]
          /\ terminalSessions' = [terminalSessions EXCEPT ![id] = NewProc]
          /\ sockets' = [sockets EXCEPT ![s] = [state |-> "open", handler |-> "terminal"]]
          /\ termOut' = Sent("ready", NewProc, "")
  /\ UNCHANGED activeSessions
  /\ UNCHANGED notTerminal

\* ws.on('message') of the terminal handler: input or resize with its data
TerminalMessage(s, type) ==
  /\ sockets[s] = [state |-> "open", handler |-> "terminal"]
  /\ type \in {"input", "resize"}
  /\ termOut' = Sent(IF type = "input" THEN "write" ELSE "resize", OwnPty(s), "data")
  /\ UNCHANGED <<sockets, activeSessions, terminalSessions, attachProcs>>
  /\ UNCHANGED notTerminal

\* ws.on('close') of the terminal handler: ptyProcess.kill() and
\* activeSessions.delete(sessionId)
TerminalClose(s) ==
  /\ sockets[s].handler = "terminal" /\ sockets[s].state \in {"open", "closing"}
  /\ sockets' = [sockets EXCEPT ![s].state = "closed"]
  /\ attachProcs' = Kill(attachProcs, OwnPty(s))
  /\ terminalSessions' = [terminalSessions EXCEPT ![attachProcs[OwnPty(s)].sessionId] = 0]
  /\ termOut' = Sent("cleanup", OwnPty(s), "")
  /\ UNCHANGED activeSessions
  /\ UNCHANGED notTerminal

\* ptyProcess.onExit of the terminal handler
PtyExit(p) ==
  /\ attachProcs[p].state = "alive" /\ attachProcs[p].via = "connection"
  /\ attachProcs' = [attachProcs EXCEPT ![p].state = "exited"]
  /\ terminalSessions' = [terminalSessions EXCEPT ![attachProcs[p].sessionId] = 0]
  /\ IF sockets[attachProcs[p].ws].state = "open"
     THEN /\ sockets' = [sockets EXCEPT ![attachProcs[p].ws].state = "closing"]
          /\ termOut' = Sent("exit", p, "")
     ELSE /\ termOut' = NoOut
          /\ UNCHANGED sockets
  /\ UNCHANGED activeSessions
  /\ UNCHANGED notTerminal

\* ------------------------------------------------------- specifications
\* The discovery pass as it stands before discover() is called.
DiscIdle ==
  /\ dPc = "idle"
  /\ dSessions = {}
  /\ dSeen = [x \in SessionIds |-> NoGit]
  /\ dRepos = {}
  /\ dPending = {}
  /\ dPrMap = [r \in Repos |-> NoBranchMap]
  /\ listCalls = [r \in Repos |-> 0]
  /\ dStates = {}
  /\ dListed = [r \in Repos |-> <<>>]
  /\ dOne = NoState
  /\ dFailed = {}

InitCache ==
  /\ instance \in {"session", "pr"}
  /\ scCache = NoEntry
  /\ scUpdateInProgress = FALSE
  /\ scUpdatePromise = 0
  /\ pcCache = [u \in Users |-> NoEntry]
  /\ pcUpdateInProgress = [u \in Users |-> 0]
  /\ ops = [i \in OpIds |-> NoOp]
  /\ resolved = {}
  /\ lastCall = Internal
  /\ tmuxSessions = {}
  /\ gitState = [x \in SessionIds |-> NoGit]
  /\ DiscIdle
  /\ TermIdle
  /\ mockWrites = FALSE
  /\ ProvIdle
  /\ CallIdle

CacheNext ==
  \/ SCGet
  \/ SCRefresh
  \/ SCInvalidate
  \/ \E i \in OpIds, ok \in BOOLEAN : SCRefreshDone(i, ok)
  \/ \E i \in OpIds : SCBackgroundThen(i)
  \/ \E i \in OpIds : SCBackgroundCatch(i)
  \/ \E i \in OpIds : SCBackgroundFinally(i)
  \/ \E u \in Users : PCGet(u)
  \/ \E u \in Users : PCRefresh(u)
  \/ \E u \in Users : PCInvalidate(u)
  \/ PCInvalidateAll
  \/ \E u \in Users : PCMarkInteraction(u)
  \/ \E i \in OpIds, ok \in BOOLEAN : PCRefreshDone(i, ok)
  \/ \E i \in OpIds : PCBackgroundThen(i)
  \/ \E i \in OpIds : PCBackgroundCatch(i)
  \/ \E i \in OpIds : PCBackgroundFinally(i)
  \/ Tick

SpecCache == InitCache /\ [][CacheNext]_vars

InitDiscovery ==
  /\ instance = "session"
  /\ scCache = NoEntry
  /\ scUpdateInProgress = FALSE
  /\ scUpdatePromise = 0
  /\ pcCache = [u \in Users |-> NoEntry]
  /\ pcUpdateInProgress = [u \in Users |-> 0]
  /\ ops = [i \in OpIds |-> NoOp]
  /\ resolved = {}
  /\ lastCall = Internal
  /\ tmuxSessions \in SUBSET SessionIds
  /\ gitState \in [SessionIds -> GitInfos]
  /\ \A x \in SessionIds \ tmuxSessions : gitState[x] = NoGit
  /\ DiscIdle
  /\ TermIdle
  /\ mockWrites = FALSE
  /\ ProvIdle
  /\ CallIdle

DiscoveryNext ==
  \/ DiscoverCall
  \/ DiscoverFetch
  \/ \E r \in Repos : \E prs \in Listings(r) : ListPRsResolve(r, prs)
  \/ \E r \in Repos : ListPRsReject(r)
  \/ DiscoverAssemble
  \/ \E x \in SessionIds, g \in GitInfos : DirectoryChanges(x, g)
  \/ \E x \in SessionIds : DiscoverOneNoGit(x)
  \/ \E x \in SessionIds : \E prs \in UNION {Listings(r) : r \in Repos} : DiscoverOneFound(x, prs)
  \/ \E x \in SessionIds : DiscoverOneFindFails(x)

SpecDiscovery == InitDiscovery /\ [][DiscoveryNext]_vars

InitProvision ==
  /\ instance = "session"
  /\ scCache = NoEntry
  /\ scUpdateInProgress = FALSE
  /\ scUpdatePromise = 0
  /\ pcCache = [u \in Users |-> NoEntry]
  /\ pcUpdateInProgress = [u \in Users |-> 0]
  /\ ops = [i \in OpIds |-> NoOp]
  /\ resolved = {}
  /\ lastCall = Internal
  /\ tmuxSessions = {}
  /\ gitState = [x \in SessionIds |-> NoGit]
  /\ DiscIdle
  /\ TermIdle
  /\ mockWrites \in BOOLEAN
  /\ ServicesIdle
  /\ CallIdle
  /\ \E old \in BOOLEAN :
       /\ remotePRs = IF old THEN <<OldPR>> ELSE <<>>
       /\ remoteBranches = IF old THEN {OldPR.branch} ELSE {}

ProvisionNext ==
  \/ \E b \in Branches : GhCreatePR(b)
  \/ \E n \in AllNumbers, st \in {"open", "closed"} : GhUpdatePR(n, st)
  \/ \E n \in AllNumbers : GhClosePR(n)
  \/ \E p \in Procs, b \in Branches : CreateNewCall(p, b)
  \/ \E p \in Procs, made \in BOOLEAN :
       \E stop \in {"clone", "createBranch", "checkout", "commit", "push", "createPR", "none"} :
         CreateNewClone(p, stop, made)
  \/ \E p \in Procs : CreateNewRemoveOld(p)
  \/ \E p \in Procs : \E stop \in {"rename", "createSession", "none"} : CreateNewRename(p, stop)
  \/ \E p \in Procs : \E stop \in {"handover", "none"} : CreateNewHandover(p, stop)
  \/ \E p \in Procs, ghOk \in BOOLEAN : \E n \in AllNumbers : SetupExistingCall(p, n, ghOk)
  \/ \E p \in Procs :
       \E stop \in {"notFound", "exists", "clone", "createSession", "none"} :
         SetupExistingClone(p, stop)
  \/ \E p \in Procs : \E stop \in {"handover", "none"} : SetupExistingHandover(p, stop)
  \/ \E p \in Procs, b \in Branches, made \in BOOLEAN :
       \E stop \in {"createPR", "none"} : CreateFromBranchCall(p, b, stop, made)
  \/ \E p \in Procs : \E stop \in {"exists", "clone", "createSession", "none"} :
       CreateFromBranchClone(p, stop)
  \/ \E p \in Procs : \E stop \in {"handover", "none"} : CreateFromBranchHandover(p, stop)
  \/ \E p \in Procs, ok \in BOOLEAN : \E n \in AllNumbers : CloseCall(p, n, ok)
  \/ \E p \in Procs : CloseExists(p)
  \/ \E p \in Procs : \E stop \in {"kill", "none"} : CloseKill(p, stop)
  \/ \E p \in Procs : CloseRemove(p)
  \/ CallerResumes
  \/ ProvDiscoverCall
  \/ ProvDiscoverFetch
  \/ \E r \in Repos : ProvListPRsResolve(r)
  \/ \E r \in Repos : ProvListPRsRealFails(r)
  \/ ProvDiscoverAssemble

SpecProvision == InitProvision /\ [][ProvisionNext]_vars

\* The caches, the discovery and the workflows at rest.
ServicesAtRest ==
  /\ instance = "session"
  /\ scCache = NoEntry
  /\ scUpdateInProgress = FALSE
  /\ scUpdatePromise = 0
  /\ pcCache = [u \in Users |-> NoEntry]
  /\ pcUpdateInProgress = [u \in Users |-> 0]
  /\ ops = [i \in OpIds |-> NoOp]
  /\ resolved = {}
  /\ lastCall = Internal
  /\ tmuxSessions = {}
  /\ gitState = [x \in SessionIds |-> NoGit]
  /\ DiscIdle
  /\ TermIdle
  /\ mockWrites = FALSE
  /\ ProvIdle

\* One call of an entry point, with any identifier or task text.
InitEntry ==
  /\ ServicesAtRest
  /\ request \in EntryRequests
  /\ response = NoResponse

EntryNext ==
  \/ ApiNew
  \/ ApiSetup
  \/ ApiClose
  \/ CliNew
  \/ CliSetup
  \/ CliClose

SpecEntry == InitEntry /\ [][EntryNext]_vars

InitHandover ==
  /\ ServicesAtRest
  /\ request \in HandoverRequests
  /\ response = NoResponse

HandoverNext ==
  \/ HandoverPlain
  \/ HandoverSkipPermissions

SpecHandover == InitHandover /\ [][HandoverNext]_vars

InitMetadata ==
  /\ ServicesAtRest
  /\ request \in MetadataRequests
  /\ response = NoResponse

SpecMetadata == InitMetadata /\ [][GenerateMetadataCall]_vars

InitRepo ==
  /\ ServicesAtRest
  /\ request \in RepoRequests
  /\ response = NoResponse

SpecRepo == InitRepo /\ [][ParseRepoCall]_vars

\* A GitHubService in simulated-write mode after construction
InitShadow ==
  /\ instance = "session"
  /\ scCache = NoEntry
  /\ scUpdateInProgress = FALSE
  /\ scUpdatePromise = 0
  /\ pcCache = [u \in Users |-> NoEntry]
  /\ pcUpdateInProgress = [u \in Users |-> 0]
  /\ ops = [i \in OpIds |-> NoOp]
  /\ resolved = {}
  /\ lastCall = Internal
  /\ tmuxSessions = {}
  /\ gitState = [x \in SessionIds |-> NoGit]
  /\ DiscIdle
  /\ TermIdle
  /\ mockWrites = TRUE
  /\ ProvIdle
  /\ CallIdle

ShadowNext ==
  \/ \E repo \in Repos, b \in Branches, d \in BOOLEAN : ShadowCreatePR(repo, b, d)
  \/ \E repo \in Repos, n \in MockBase..(MockBase + MaxPRs), st \in {"open", "closed"} :
       ShadowUpdatePR(repo, n, st)
  \/ \E repo \in Repos, n \in MockBase..(MockBase + MaxPRs) : ShadowClosePR(repo, n)
  \/ ClearMockPRs

SpecShadow == InitShadow /\ [][ShadowNext]_vars

\* The two WebSocket handlers of a server that has just started.
InitTerminal ==
  /\ ServicesAtRest
  /\ CallIdle

TerminalNext ==
  \/ \E s \in Sockets : WsConnection(s)
  \/ \E s \in Sockets, id \in AttachRequests : HandleAttach(s, id)
  \/ \E s \in Sockets, hasData \in BOOLEAN : HandleInput(s, hasData)
  \/ \E s \in Sockets, hasSize \in BOOLEAN : HandleResize(s, hasSize)
  \/ \E s \in Sockets : HandleUnknown(s)
  \/ \E s \in Sockets : WsClose(s)
  \/ \E s \in Sockets : WsError(s)
  \/ \E p \in AttachIds, event \in {"exit", "error"} : AttachProcEnds(p, event)
  \/ \E s \in Sockets, id \in AttachRequests, tokenValid \in BOOLEAN, spawns \in BOOLEAN :
       TerminalConnection(s, id, tokenValid, spawns)
  \/ \E s \in Sockets, type \in {"input", "resize"} : TerminalMessage(s, type)
  \/ \E s \in Sockets : TerminalClose(s)
  \/ \E p \in AttachIds : PtyExit(p)

SpecTerminal == InitTerminal /\ [][TerminalNext]_vars

\* ------------------------------------------------ reading the two caches
CacheKeys == {<<"session", SKey>>} \cup {<<"pr", u>> : u \in Users}
EntryOf(svc, k) == IF svc = "session" THEN scCache ELSE pcCache[k]
FreshOf(svc, k) == IF svc = "session" THEN SCFresh ELSE PCFresh(k)
TtlOf(svc) == IF svc = "session" THEN SessionTtl ELSE PRTtl
\* The promise a call that finds the key refreshing is handed (0 = none).
MarkerOf(svc, k) ==
  IF svc = "session"
  THEN (IF scUpdateInProgress THEN scUpdatePromise ELSE 0)
  ELSE pcUpdateInProgress[k]
\* The key's entry after the step.
EntryAfter(svc, k) == IF svc = "session" THEN scCache' ELSE pcCache'[k]
GetCalled(svc, k) == lastCall' = Call("get", svc, k)
\* What a get that is answered from the cache returns.
Cached(svc, k, d) == Result(svc, k, Waiter("get", TRUE, FALSE), TRUE, 0, d)

\* ------------------------------------------------------------ claims

\* C1: at most one refresh operation is in flight per key at any time; the
\* in-flight operation is the one the key's marker holds, and a refresh call made
\* while one is in flight starts no operation and is attached to that one.
C1_AtMostOneRefreshInFlight ==
  /\ [](\A c \in CacheKeys :
         /\ Cardinality(InFlight(c[1], c[2])) <= 1
         /\ \A i \in InFlight(c[1], c[2]) : MarkerOf(c[1], c[2]) = i)
  /\ [][\A c \in CacheKeys : \A i \in InFlight(c[1], c[2]) :
          lastCall' = Call("refresh", c[1], c[2]) =>
            /\ Started(c[1], c[2]) = {}
            /\ IF ops[i].state = "pending"
               THEN Waiter("refresh", FALSE, FALSE) \in ops'[i].waiters /\ resolved' = {}
               ELSE resolved' = {Result(c[1], c[2], Waiter("refresh", FALSE, FALSE),
                                        ops[i].state = "fulfilled", i,
                                        IF ops[i].state = "fulfilled" THEN Payload(i) ELSE 0)}]_vars

\* C1 witness: a refresh call is attached to a background refresh it did not start.
C1_Witness ==
  \E i \in OpIds : /\ ops[i].state = "pending" /\ ops[i].kind = "background"
                    /\ Waiter("refresh", FALSE, FALSE) \in ops[i].waiters

\* C2: a get on a stale key with no refresh in flight starts exactly one refresh
\* operation, and every get issued while that operation is in flight starts none.
C2_StaleGetsStartOneRefresh ==
  [][\A c \in CacheKeys :
       GetCalled(c[1], c[2]) =>
         IF InFlight(c[1], c[2]) # {}
         THEN Started(c[1], c[2]) = {}
         ELSE (EntryOf(c[1], c[2]).present /\ ~FreshOf(c[1], c[2]))
                => Cardinality(Started(c[1], c[2])) = 1]_vars

\* C2 witness: a second get arrived while the background refresh of a stale key is pending.
C2_Witness ==
  \E i \in OpIds : /\ ops[i].state = "pending" /\ ops[i].kind = "background"
                    /\ Waiter("get", TRUE, FALSE) \in ops[i].waiters
                    /\ Cardinality(InFlight(ops[i].svc, ops[i].key)) = 1

\* C3: no get issued while a cached payload exists for the key is rejected by the
\* failure of a background refresh.
C3_GetWithPayloadNeverRejects ==
  \A r \in resolved :
    (r.call = "get" /\ r.hadEntry /\ r.op # 0 /\ ops[r.op].kind = "background") => r.ok

\* C4: the failure of a background refresh changes nothing in the key's entry,
\* and an entry that is present then is the one (payload and stored time) that
\* was there when the refresh started.
C4_FailedBackgroundKeepsEntry ==
  [][\A i \in OpIds :
       (ops[i].kind = "background" /\ ops[i].state \in {"pending", "rejected"}
          /\ ops'[i].state \in {"rejected", "done"} /\ ops'[i].state # ops[i].state)
       => /\ EntryAfter(ops[i].svc, ops[i].key) = EntryOf(ops[i].svc, ops[i].key)
          /\ EntryOf(ops[i].svc, ops[i].key).present
               => /\ EntryOf(ops[i].svc, ops[i].key).data = ops[i].snap.data
                  /\ EntryOf(ops[i].svc, ops[i].key).age = ops[i].snap.age]_vars

\* C4 witness: a background refresh has failed and the stale entry is still there.
C4_Witness ==
  \E i \in OpIds : /\ ops[i].kind = "background" /\ ops[i].state = "rejected"
                    /\ EntryOf(ops[i].svc, ops[i].key).present
                    /\ EntryOf(ops[i].svc, ops[i].key).data = ops[i].snap.data

\* C5: a get on a stale key with no refresh in flight starts one background
\* refresh and is answered in the same step with the stale payload, while that
\* refresh is still pending.
C5_StaleGetReturnsAtOnce ==
  [][\A c \in CacheKeys :
       (GetCalled(c[1], c[2]) /\ EntryOf(c[1], c[2]).present /\ ~FreshOf(c[1], c[2])
          /\ InFlight(c[1], c[2]) = {})
       => /\ Cardinality(Started(c[1], c[2])) = 1
          /\ \A i \in Started(c[1], c[2]) : ops'[i].kind = "background"
          /\ resolved' = {Cached(c[1], c[2], EntryOf(c[1], c[2]).data)}
          /\ EntryAfter(c[1], c[2]).data = EntryOf(c[1], c[2]).data]_vars

\* C5 witness: a get has just been answered with the stale payload while the
\* background refresh it started is pending.
C5_Witness ==
  \E c \in CacheKeys :
    /\ lastCall = Call("get", c[1], c[2])
    /\ \E i \in OpIds : ops[i].state = "pending" /\ ops[i].kind = "background"
                         /\ ops[i].svc = c[1] /\ ops[i].key = c[2] /\ ops[i].waiters = {}
    /\ resolved = {Cached(c[1], c[2], EntryOf(c[1], c[2]).data)}

\* C6: a get made less than TTL after a successful refresh stored the key's
\* entry, with nothing in flight, returns the cached payload and starts no refresh.
C6_GetWithinTtlOfRefresh ==
  [][\A c \in CacheKeys :
       (GetCalled(c[1], c[2]) /\ EntryOf(c[1], c[2]).present
          /\ EntryOf(c[1], c[2]).age < TtlOf(c[1]) /\ InFlight(c[1], c[2]) = {})
       => /\ Started(c[1], c[2]) = {}
          /\ resolved' = {Cached(c[1], c[2], EntryOf(c[1], c[2]).data)}]_vars

\* C7: a get on an absent key with no refresh in flight starts one refresh and is
\* not answered in that step; when the refresh succeeds the get is answered with
\* its payload and the entry holds that payload; when it fails the get is
\* rejected, the key is absent and nothing is in flight or marked (so the next
\* get starts a refresh again).
C7_AbsentGetBlocks ==
  /\ [][\A c \in CacheKeys :
          (GetCalled(c[1], c[2]) /\ ~EntryOf(c[1], c[2]).present /\ InFlight(c[1], c[2]) = {})
          => /\ Cardinality(Started(c[1], c[2])) = 1
             /\ resolved' = {}
             /\ \A i \in Started(c[1], c[2]) : Waiter("get", FALSE, TRUE) \in ops'[i].waiters]_vars
  /\ [](\A r \in resolved :
         (r.call = "get" /\ r.started) =>
           IF r.ok
           THEN /\ EntryOf(r.svc, r.key).present
                /\ EntryOf(r.svc, r.key).data = r.data
                /\ r.data = Payload(r.op)
           ELSE /\ ~EntryOf(r.svc, r.key).present
                /\ InFlight(r.svc, r.key) = {}
                /\ MarkerOf(r.svc, r.key) = 0)

\* C7 witness: a get that started the first load has been rejected.
C7_Witness ==
  \E r \in resolved : r.call = "get" /\ r.started /\ ~r.ok

\* C8: when invalidate resolves successfully, the entry holds exactly the payload
\* it resolved with.
C8_InvalidateLeavesItsPayload ==
  \A r \in resolved :
    (r.call = "invalidate" /\ r.ok) =>
      /\ EntryOf(r.svc, r.key).present
      /\ EntryOf(r.svc, r.key).data = r.data

\* C9: once the background refresh of a user's stale entry succeeds, the entry is fresh.
C9_RefreshedEntryIsFresh ==
  [][\A i \in OpIds :
       (ops[i].svc = "pr" /\ ops[i].kind = "background" /\ ops[i].state = "pending"
          /\ ops'[i].state = "fulfilled")
       => PCFresh(ops[i].key)']_vars

\* C10: once a discover() pass has issued its listings, it has issued exactly one
\* listPRs call for every repository that some listed session's snapshot named,
\* and none for any other repository (none at all when no session has a snapshot).
C10_OneListingPerRepository ==
  dPc \in {"fetch", "done"} =>
    \A r \in Repos :
      listCalls[r] = IF \E x \in dSessions : dSeen[x].ok /\ dSeen[x].repo = r THEN 1 ELSE 0

\* C10 witness: a pass over two sessions of the same repository has returned.
C10_Witness ==
  /\ dPc = "done"
  /\ \E r \in Repos :
       /\ Cardinality({x \in dSessions : dSeen[x].ok /\ dSeen[x].repo = r}) >= 2
       /\ listCalls[r] = 1

\* The states the discovery calls of the behaviour have returned.
ReturnedStates == dStates \cup (IF dOne = NoState THEN {} ELSE {dOne})

\* C11: in every state returned by discover() or discoverOne(), hasPR implies
\* hasGit, pr is non-null exactly when hasPR, gitInfo is non-null exactly when
\* hasGit, and a non-null pr has gitInfo's branch (same string, same case) and
\* gitInfo's repository.
C11_ReturnedStatesConsistent ==
  \A s \in ReturnedStates :
    /\ s.hasPR => s.hasGit
    /\ (s.pr # NoPR) <=> s.hasPR
    /\ (s.gitInfo # NoGit) <=> s.hasGit
    /\ s.pr # NoPR => (s.pr.branch = s.gitInfo.branch /\ s.pr.repo = s.gitInfo.repo)

\* C11 witness: a pass returned a matched session and, in the same repository, an
\* unmatched session on another branch, after a working directory changed.
C11_Witness ==
  /\ dPc = "done"
  /\ \E x \in dSessions : gitState[x] # dSeen[x]
  /\ \E s, t \in dStates :
       /\ s.hasPR /\ t.hasGit /\ ~t.hasPR
       /\ t.gitInfo.repo = s.gitInfo.repo /\ t.gitInfo.branch # s.gitInfo.branch

\* C12: a returned session whose branch has requests in the listing received
\* for its repository is matched to the one that comes first in that listing.
C12_FirstListedRequestWins ==
  \A s \in ReturnedStates :
    LET prs == IF s.hasGit THEN dListed[s.gitInfo.repo] ELSE <<>>
    IN (\E k \in 1..Len(prs) : prs[k].branch = s.gitInfo.branch)
       => \E k \in 1..Len(prs) :
            /\ s.pr = prs[k]
            /\ prs[k].branch = s.gitInfo.branch
            /\ \A j \in 1..(k - 1) : prs[j].branch # s.gitInfo.branch

\* C12 witness: a pass received a listing with two requests on a session's
\* branch, the higher number first, and matched the session to the first.
C12_Witness ==
  /\ dPc = "done"
  /\ \E s \in dStates :
       /\ s.hasGit
       /\ Len(dListed[s.gitInfo.repo]) = 2
       /\ dListed[s.gitInfo.repo][1].branch = s.gitInfo.branch
       /\ dListed[s.gitInfo.repo][2].branch = s.gitInfo.branch
       /\ dListed[s.gitInfo.repo][1].number > dListed[s.gitInfo.repo][2].number
       /\ s.pr = dListed[s.gitInfo.repo][1]

\* C13: a session whose directory is not version-controlled is among the states
\* discover() returns, and is the state discoverOne() returns, with gitInfo
\* null, hasGit false, pr null and hasPR false.
C13_NonGitSessionReported ==
  /\ dPc = "done" =>
       \A x \in dSessions :
         ~gitState[x].ok =>
           \E s \in dStates : /\ s.session = x
                               /\ s.gitInfo = NoGit /\ ~s.hasGit
                               /\ s.pr = NoPR /\ ~s.hasPR
  /\ dPc = "one" =>
       /\ dOne # NoState
       /\ ~gitState[dOne.session].ok =>
            /\ dOne.gitInfo = NoGit /\ ~dOne.hasGit
            /\ dOne.pr = NoPR /\ ~dOne.hasPR

\* C13 witness: a pass returned the state of a session outside a repository next
\* to a matched session.
C13_Witness ==
  /\ dPc = "done"
  /\ \E s, t \in dStates : ~s.hasGit /\ ~gitState[s.session].ok /\ t.hasPR

\* C14: when the listing of a repository failed, the pass still returns a state
\* for every session; the sessions of that repository have hasGit true and hasPR
\* false; and the state of a session of any other listed repository is fixed by
\* its own snapshot and its own repository's listing alone.
C14_FailedListingIsContained ==
  (dPc = "done" /\ dFailed # {}) =>
    /\ \A x \in dSessions : \E s \in dStates : s.session = x /\ s.gitInfo = gitState[x]
    /\ \A s \in dStates :
         /\ s.gitInfo.repo \in dFailed => (s.hasGit /\ ~s.hasPR)
         /\ (s.hasGit /\ s.gitInfo.repo \in dRepos \ dFailed) =>
              LET prs == dListed[s.gitInfo.repo]
                  on == {k \in 1..Len(prs) : prs[k].branch = s.gitInfo.branch}
              IN /\ s.hasPR <=> on # {}
                 /\ s.hasPR => \E k \in on : s.pr = prs[k] /\ \A j \in on : k <= j

\* C14 witness: a pass in which one listing failed returned an unmatched session
\* of that repository and a matched session of another repository.
C14_Witness ==
  /\ dPc = "done"
  /\ \E s, t \in dStates :
       /\ s.hasGit /\ s.gitInfo.repo \in dFailed /\ ~s.hasPR
       /\ t.hasPR /\ t.gitInfo.repo \notin dFailed

\* C15: no state that discover() or discoverOne() returns matches a session to a
\* review request whose state is not OPEN, whatever createPR, updatePR and
\* closePR calls came before, in real and in simulated-write mode.
C15_OnlyOpenRequestsMatched ==
  \A s \in ReturnedStates : s.hasPR => s.pr.state = "OPEN"

C17_NoRollback ==
  [][(lastReturn' # lastReturn /\ lastReturn'.kind # "none" /\ ~lastReturn'.ok) =>
       LET w == wf[lastReturn'.proc]
       IN /\ \A d \in dirs :
               \/ d \in dirs'
               \/ /\ d.kind = "temp" /\ d.id = w.temp
                  /\ \E e \in dirs' : e.kind = "pr" /\ e.id = w.pr.number /\ e.by = d.by
          /\ remoteBranches \subseteq remoteBranches'
          /\ tmuxSessions \subseteq tmuxSessions'
          /\ \A x \in tmuxSessions : sessionName'[x] = sessionName[x] /\ gitState'[x] = gitState[x]
          /\ Len(mockPRs) <= Len(mockPRs') /\ SubSeq(mockPRs', 1, Len(mockPRs)) = mockPRs
          /\ Len(remotePRs) <= Len(remotePRs') /\ SubSeq(remotePRs', 1, Len(remotePRs)) = remotePRs
          /\ (w.kind = "createNew" /\ lastReturn'.failed \in {"rename", "createSession", "handover"}) =>
               /\ w.pr.state = "OPEN"
               /\ \E k \in 1..Len(mockPRs' \o remotePRs') : (mockPRs' \o remotePRs')[k] = w.pr
               /\ \E d \in dirs' : \/ (d.kind = "temp" /\ d.id = w.temp)
                                  \/ (d.kind = "pr" /\ d.id = w.pr.number)
               /\ w.branch \in remoteBranches'
               /\ lastReturn'.failed # "handover" => lastReturn'.proc \notin tmuxSessions']_vars

\* C17 witness: createNew threw at the session creation: its request is OPEN in
\* the store, its clone is at pr-<number> and it has no session.
C17_Witness ==
  /\ lastReturn.kind = "createNew" /\ ~lastReturn.ok /\ lastReturn.failed = "createSession"
  /\ lastReturn.proc \notin tmuxSessions
  /\ \E d \in dirs :
       /\ d.kind = "pr" /\ d.by = lastReturn.proc
       /\ GetPR(d.id) # NoPR /\ GetPR(d.id).state = "OPEN"

\* C18: when createNew returns with request number N, the request N exists with
\* state OPEN and draft true and is the returned one; clonesDir/pr-N exists and
\* is the invocation's clone, and no temporary clone of the invocation is left;
\* exactly one session is named sessionPrefix+N, it is the invocation's and its
\* working directory is that clone, on the request's branch; and the returned
\* clonePath and session id are pr-N and sessionPrefix+N.
C18_CreateNewReturn ==
  (lastReturn.kind = "createNew" /\ lastReturn.ok) =>
    LET N == lastReturn.pr.number
        p == lastReturn.proc
    IN /\ GetPR(N) = lastReturn.pr
       /\ lastReturn.pr.state = "OPEN" /\ lastReturn.pr.draft
       /\ DirsAt("pr", N) = {Dir("pr", N, p)}
       /\ \A d \in dirs : d.kind = "temp" => d.by # p
       /\ SessionsIn(N) = {p}
       /\ gitState[p] = [ok |-> TRUE, repo |-> lastReturn.pr.repo, branch |-> lastReturn.pr.branch]
       /\ lastReturn.clonePath = N /\ lastReturn.sessionId = N

\* C18 witness: createNew returned while the temporary clone of another
\* invocation exists.
C18_Witness ==
  /\ lastReturn.kind = "createNew" /\ lastReturn.ok
  /\ \E d \in dirs : d.kind = "temp"

\* C19 as stated: in simulated-write mode, a discover() pass after createNew
\* returned reports the created session with hasGit and hasPR true, pr.number
\* the created request's number and gitInfo.branch the created request's branch.
C19_DiscoverFindsCreatedRequest ==
  (dPc = "done" /\ mockWrites) =>
    \A r \in returned :
      r.kind = "createNew" =>
        \E s \in dStates :
          /\ s.session = r.proc
          /\ s.hasGit /\ s.hasPR
          /\ s.pr.number = r.pr.number
          /\ s.gitInfo.branch = r.pr.branch

\* C19, amended: in simulated-write mode, a discover() pass after createNew
\* returned reports the created session with hasGit and hasPR true and
\* gitInfo.branch the created request's branch; its pr is the first listed
\* request on that branch, which is the created request exactly when no request
\* created earlier in the shadow store has the same branch.
C19_DiscoverFindsFirstRequestOnBranch ==
  (dPc = "done" /\ mockWrites) =>
    \A r \in returned :
      r.kind = "createNew" =>
        \E s \in dStates :
          /\ s.session = r.proc
          /\ s.hasGit /\ s.hasPR
          /\ s.gitInfo.branch = r.pr.branch
          /\ s.pr.branch = r.pr.branch
          /\ s.pr.number <= r.pr.number
          /\ \A k \in 1..Len(mockPRs) : mockPRs[k].branch = r.pr.branch =>
                                          s.pr.number <= mockPRs[k].number
          /\ s.pr.number = r.pr.number <=>
               ~\E k \in 1..Len(mockPRs) : /\ mockPRs[k].branch = r.pr.branch
                                           /\ mockPRs[k].number < r.pr.number

\* C19 witness: a pass reported the sessions of two createNew calls, each with
\* the request its call created.
C19_Witness ==
  /\ dPc = "done" /\ mockWrites
  /\ \E r1, r2 \in returned :
       /\ r1.kind = "createNew" /\ r2.kind = "createNew" /\ r1.proc # r2.proc
       /\ \E s1, s2 \in dStates :
            /\ s1.session = r1.proc /\ s1.hasPR /\ s1.pr.number = r1.pr.number
            /\ s2.session = r2.proc /\ s2.hasPR /\ s2.pr.number = r2.pr.number

\* C20: two createNew calls that both returned, one after the other or
\* interleaved, and whose requests have not been torn down since, have different request numbers, different session ids and
\* different clone directories; both sessions and both directories exist, each
\* directory is still the clone its own call made, and each session has its own
\* call's directory and branch; and no step removes or renames a temporary or
\* final clone of a createNew call other than a step of that call itself.
C20_TwoCreateNewDoNotCollide ==
  /\ [](\A r1, r2 \in returned :
         (r1.kind = "createNew" /\ r2.kind = "createNew" /\ r1.proc # r2.proc) =>
           /\ r1.pr.number # r2.pr.number
           /\ r1.sessionId # r2.sessionId
           /\ r1.clonePath # r2.clonePath
           /\ \A r \in {r1, r2} :
                /\ r.proc \in tmuxSessions /\ sessionName[r.proc] = r.sessionId
                /\ SessionsIn(r.sessionId) = {r.proc}
                /\ DirsAt("pr", r.clonePath) = {Dir("pr", r.clonePath, r.proc)}
                /\ gitState[r.proc] = [ok |-> TRUE, repo |-> r.pr.repo,
                                       branch |-> r.pr.branch])
  /\ [][\A d \in dirs \ dirs' :
          (\/ wf[d.by].kind = "createNew"
           \/ \E r \in returned : r.kind = "createNew" /\ r.proc = d.by) =>
            wf'[d.by] # wf[d.by]]_vars

\* C20 witness: two interleaved createNew calls both returned, the one that was
\* called first with the larger request number.
C20_Witness ==
  /\ \E r1, r2 \in returned :
       /\ r1.kind = "createNew" /\ r2.kind = "createNew" /\ r1.proc # r2.proc
       /\ r1.pr.number > r2.pr.number /\ r1.proc < r2.proc
  /\ lastReturn.ok

\* The review system knows request n: it is in the shadow store (simulated-write
\* mode) or on GitHub.
Known(n) == (mockWrites /\ n \in NumbersOf(mockPRs)) \/ n \in NumbersOf(remotePRs)

\* C21: setupExisting(n) for a number n the review system does not know throws
\* the not-found error having issued getPR alone (no clone, no session creation,
\* no handover), and the step in which it throws creates no directory and no
\* session and changes no request and no branch.
C21_SetupExistingNotFound ==
  /\ []((lastReturn.kind = "setupExisting" /\ ~Known(lastReturn.arg)) =>
          /\ ~lastReturn.ok /\ lastReturn.failed = "notFound"
          /\ lastReturn.calls = <<"getPR">>)
  /\ [][(lastReturn' # lastReturn /\ lastReturn'.kind = "setupExisting"
           /\ ~Known(lastReturn'.arg)) =>
          UNCHANGED <<dirs, tmuxSessions, sessionName, gitState, mockPRs, remotePRs,
                      remoteBranches>>]_vars

\* C21 witness: setupExisting threw not-found for the unknown number while a
\* request, its pushed branch and a session exist.
C21_Witness ==
  /\ lastReturn.kind = "setupExisting" /\ lastReturn.arg = UnknownNumber
  /\ lastReturn.failed = "notFound"
  /\ PRCount > 0 /\ remoteBranches # {} /\ tmuxSessions # {}

\* C22: when setupExisting has found request N and clonesDir/pr-N exists, it
\* throws the already-exists error having issued getPR alone, and that step
\* changes nothing: the directories (pr-N among them), the sessions, their
\* working directories, the requests and the branches are as before.
C22_SetupExistingConflict ==
  [][\A p \in Procs :
       (/\ wf[p].kind = "setupExisting" /\ wf[p].pc = "gotPR" /\ wf[p].pr # NoPR
        /\ Exists("pr", wf[p].pr.number)
        /\ wf'[p] # wf[p]) =>
         /\ lastReturn'.proc = p /\ ~lastReturn'.ok /\ lastReturn'.failed = "exists"
         /\ lastReturn'.calls = <<"getPR">>
         /\ UNCHANGED <<dirs, tmuxSessions, sessionName, gitState, mockPRs, remotePRs,
                        remoteBranches>>]_vars

\* C22 witness: setupExisting threw already-exists for a request whose clone
\* directory and session another workflow had made.
C22_Witness ==
  /\ lastReturn.kind = "setupExisting" /\ lastReturn.failed = "exists"
  /\ Exists("pr", lastReturn.arg) /\ SessionExists(lastReturn.arg)

\* C23: when close(N) returns, request N (if the review system knows one) has
\* state CLOSED, no session is named sessionPrefix+N and clonesDir/pr-N does not
\* exist.
C23_CloseLeavesNothing ==
  (lastReturn.kind = "close" /\ lastReturn.ok) =>
    LET N == lastReturn.arg
    IN /\ Known(N) => GetPR(N).state = "CLOSED"
       /\ ~SessionExists(N)
       /\ ~Exists("pr", N)

\* C24: when closePR throws in close(N), close throws having issued closePR
\* alone (no exists check, no kill, no removal), and the step in which it throws
\* leaves the sessions, their working directories and the directories under
\* clonesDir as they were.
C24_CloseFailsEarly ==
  /\ []((lastReturn.kind = "close" /\ lastReturn.failed = "closePR") =>
          /\ ~lastReturn.ok
          /\ lastReturn.calls = <<"closePR">>)
  /\ [][(lastReturn' # lastReturn /\ lastReturn'.kind = "close"
           /\ lastReturn'.failed = "closePR") =>
          UNCHANGED <<tmuxSessions, sessionName, gitState, dirs>>]_vars

\* C24 witness: closePR threw in the teardown of a request that has a session
\* and a clone directory.
C24_Witness ==
  /\ lastReturn.kind = "close" /\ lastReturn.failed = "closePR"
  /\ SessionExists(lastReturn.arg) /\ Exists("pr", lastReturn.arg)

\* An identifier text names a review request: decimal digits only, denoting a
\* positive number.
ValidId(t) == t # <<>> /\ (\A i \in 1..Len(t) : t[i] \in Digits) /\ DigitsValue(t) > 0

\* C25: an entry point calls a workflow (and with it a port) only for a numeric,
\* positive review-request identifier, and only for a task text that is not
\* empty.
C25_InvalidInputIsRejected ==
  response.status = "called" =>
    IF request.fn \in IdEntries THEN ValidId(request.arg) ELSE request.arg # <<>>

\* The workflows that end with a handover.
Provisioning == {"createNew", "createFromBranch", "setupExisting"}
\* How many times a workflow issued the port call c.
Occurrences(calls, c) == Cardinality({k \in 1..Len(calls) : calls[k] = c})

C27_EscapeRoundTrip ==
  response.status = "sent" =>
    LET m == BuildContext(request.context)
        flag == IF request.skipPermissions = "true"
                THEN <<" ", "--dangerously-skip-permissions">> ELSE <<>>
        quotes == Occurrences(m, Quote)
        words == ShellWords(response.keys)
        e == SubSeq(response.keys, 4, 3 + Len(m) + 3 * quotes)
        at(k) == k + 3 * Occurrences(SubSeq(m, 1, k - 1), Quote)
    IN /\ Len(response.keys) = 4 + Len(m) + 3 * quotes + Len(flag)
       /\ response.keys = <<"claude", " ", Quote>> \o e \o <<Quote>> \o flag
       /\ \A k \in 1..Len(m) :
            IF m[k] = Quote
            THEN SubSeq(e, at(k), at(k) + 3) = <<Quote, Backslash, Quote, Quote>>
            ELSE e[at(k)] = m[k]
       /\ Len(words) = IF flag = <<>> THEN 2 ELSE 3
       /\ words[1] = <<"claude">>
       /\ words[2] = m
       /\ flag # <<>> => words[3] = <<"--dangerously-skip-permissions">>

\* C27 witness: a command was built for a user prompt that holds a quote next
\* to a backslash and a space.
C27_Witness ==
  /\ response.status = "sent"
  /\ \E k \in 1..(Len(request.context.userPrompt) - 1) :
       /\ request.context.userPrompt[k] = Backslash
       /\ request.context.userPrompt[k + 1] = Quote
  /\ \E k \in 1..Len(request.context.userPrompt) : request.context.userPrompt[k] = " "

\* The assistant call failed, timed out or returned output that lacks one of the
\* BRANCH, TITLE and BODY lines.
NoMetadata(outcome) ==
  \/ outcome.kind \in {"failed", "timeout"}
  \/ \E l \in Labels : \A k \in 1..Len(outcome.lines) : outcome.lines[k].label # l
\* The task text up to its first '.', '!', '?' or newline.
UpToFirstStop(text) ==
  IF \E k \in 1..Len(text) : text[k] \in {".", "!", "?", "\n"}
  THEN LET k == CHOOSE i \in 1..Len(text) :
                  /\ text[i] \in {".", "!", "?", "\n"}
                  /\ \A j \in 1..(i - 1) : text[j] \notin {".", "!", "?", "\n"}
       IN SubSeq(text, 1, k - 1)
  ELSE text
\* The first n characters of a text.
Truncated(text, n) == [k \in 1..(IF Len(text) < n THEN Len(text) ELSE n) |-> text[k]]
\* A text without the spaces at its ends.
Stripped(text) ==
  LET inked == {k \in 1..Len(text) : text[k] # " "}
  IN IF inked = {} THEN <<>>
     ELSE SubSeq(text, CHOOSE i \in inked : \A j \in inked : i <= j,
                       CHOOSE i \in inked : \A j \in inked : j <= i)

\* C28 as stated: generateMetadata never throws, and when the assistant call
\* fails, times out or returns output lacking a BRANCH, TITLE or BODY line it
\* returns the title 'feat: ' followed by the task text up to its first '.',
\* '!', '?' or newline, truncated to 72 characters, and the branch name
\* 'ad/feat/task-' followed by the timestamp.
C28_FallbackTitleIsFirstClause ==
  response.status = "settled" =>
    /\ response.value.status = "returned"
    /\ NoMetadata(response.outcome) =>
         /\ response.value.title =
              Truncated(<<"f", "e", "a", "t", ":", " ">> \o UpToFirstStop(request.prompt), 72)
         /\ response.value.branchName = <<"ad/feat/task-", ToString(response.timestamp)>>
         /\ response.timestamp \in Nat

\* C28, amended: generateMetadata never throws, and in those cases it returns
\* the title 'feat: ' followed by the task text up to its first '.', '!', '?'
\* or newline with the spaces at the ends of that clause removed, truncated to
\* 72 characters, and the branch name 'ad/feat/task-' followed by the timestamp.
C28_FallbackTitleIsTrimmedFirstClause ==
  response.status = "settled" =>
    /\ response.value.status = "returned"
    /\ NoMetadata(response.outcome) =>
         /\ response.value.title =
              Truncated(<<"f", "e", "a", "t", ":", " ">>
                        \o Stripped(UpToFirstStop(request.prompt)), 72)
         /\ response.value.branchName = <<"ad/feat/task-", ToString(response.timestamp)>>
         /\ response.timestamp \in Nat

\* C28 witness: the output lacked a line, and the fallback title was cut at 72
\* characters inside the first clause of a task text that has a second clause.
C28_Witness ==
  /\ response.status = "settled"
  /\ response.outcome.kind = "output" /\ Len(response.outcome.lines) = 2
  /\ Len(response.value.title) = 72
  /\ Len(UpToFirstStop(request.prompt)) > 66
  /\ Len(UpToFirstStop(request.prompt)) < Len(request.prompt)

\* A remote of one of the forms git@github.com:OWNER/REPO.git,
\* https://github.com/OWNER/REPO.git and https://github.com/OWNER/REPO.
RecognizedRemote(r) ==
  /\ r.host = "github.com"
  /\ \/ r.lead = <<"git@">> /\ r.sep = ":" /\ r.dotGit
     \/ r.lead = <<"https://">> /\ r.sep = "/"

\* C29: parseRepo returns OWNER/REPO for every remote of the forms
\* git@github.com:OWNER/REPO.git, https://github.com/OWNER/REPO.git and
\* https://github.com/OWNER/REPO, throws the parse error for every other
\* remote, and never returns anything but the remote's owner/repo.
C29_ParseRepoExact ==
  response.status # "none" =>
    LET r == request.parts
    IN /\ RecognizedRemote(r) =>
            response = [status |-> "returned", value |-> r.owner \o <<"/">> \o r.repo]
       /\ ~RecognizedRemote(r) => response.status = "threw"
       /\ response.status = "returned" => response.value = r.owner \o <<"/">> \o r.repo

\* C30: in simulated-write mode the k-th request created since construction or
\* since clearMockPRs has number 10000 + (k - 1), whatever its repository, so
\* that no two requests share a number; its url ends with its own number;
\* getPR(its repository, its number) returns it; and a step that creates a
\* request gives it the number after the last one and leaves the numbers and
\* urls of the others as they were.
C30_MockNumbering ==
  /\ [](mockWrites =>
          \A k \in 1..Len(mockPRs) :
            /\ mockPRs[k].number = 10000 + (k - 1)
            /\ mockPRs[k].url[Len(mockPRs[k].url)] = ToString(mockPRs[k].number)
            /\ ShadowGetPR(mockPRs[k].repo, mockPRs[k].number) = mockPRs[k]
            /\ \A j \in 1..Len(mockPRs) : mockPRs[j].number = mockPRs[k].number => j = k)
  /\ [][(mockWrites /\ Len(mockPRs') = Len(mockPRs) + 1) =>
          /\ mockPRs'[Len(mockPRs')].number = 10000 + Len(mockPRs)
          /\ \A k \in 1..Len(mockPRs) :
               /\ mockPRs'[k].number = mockPRs[k].number
               /\ mockPRs'[k].url = mockPRs[k].url]_vars

\* C30 witness: after a clearMockPRs the store holds two requests of different
\* repositories, numbered 10000 and 10001, the first of them closed.
C30_Witness ==
  /\ mockWrites /\ Len(mockPRs) = 2
  /\ mockPRs[1].repo # mockPRs[2].repo
  /\ mockPRs[1].state = "CLOSED"
  /\ mockPRs[2].number = 10001

\* C31: in simulated-write mode no step changes a request of the real review
\* system, and a createPR, updatePR or closePR of the service's client changes
\* the shadow store and nothing else; listPRs(repo) is the repository's shadow
\* requests followed by the real open requests, and getPR(repo, n) is the
\* shadow request n if there is one and the real request n otherwise.
C31_MockWritesStayInMemory ==
  /\ [][mockWrites => remotePRs' = remotePRs]_vars
  /\ [][(mockWrites /\ Quiet /\ wf' = wf /\ mockPRs' # mockPRs) =>
          UNCHANGED <<remotePRs, remoteBranches, dirs, sessionName, tmuxSessions, gitState,
                      clock, lastReturn, returned>>]_vars
  /\ [](mockWrites =>
          /\ ListPRs(RepoName) = mockPRs \o SelectSeq(remotePRs, LAMBDA pr : pr.state = "OPEN")
          /\ \A r \in Repos \ {RepoName} : ListPRs(r) = <<>>
          /\ \A n \in AllNumbers :
               /\ n \in NumbersOf(mockPRs) => GetPR(n) \in {mockPRs[k] : k \in 1..Len(mockPRs)}
               /\ n \notin NumbersOf(mockPRs) =>
                    GetPR(n) \in {remotePRs[k] : k \in 1..Len(remotePRs)} \cup {NoPR}
               /\ GetPR(n) # NoPR => GetPR(n).number = n
               /\ (n \in NumbersOf(remotePRs) \cup NumbersOf(mockPRs)) => GetPR(n) # NoPR)

\* C31 witness: in simulated-write mode a shadow request has been closed while
\* the real review system holds an open request, which a listing still shows.
C31_Witness ==
  /\ mockWrites
  /\ \E k \in 1..Len(mockPRs) : mockPRs[k].state = "CLOSED"
  /\ Len(remotePRs) = 1 /\ remotePRs[1].state = "OPEN"
  /\ Len(ListPRs(RepoName)) = Len(mockPRs) + 1

\* C32: every payload a get returns as fresh (answered from the entry, with no
\* refresh started or joined) is the payload of an entry that a refresh stored
\* less than TTL before that get, in the session cache and in the per-user
\* review-request cache.
C32_FreshPayloadIsYoungerThanTtl ==
  [][\A c \in CacheKeys :
       (GetCalled(c[1], c[2]) /\ FreshOf(c[1], c[2])
          /\ resolved' = {Cached(c[1], c[2], EntryOf(c[1], c[2]).data)}
          /\ Started(c[1], c[2]) = {})
       => EntryOf(c[1], c[2]).age < TtlOf(c[1])]_vars

\* C33: in the session cache a get that finds the entry fresh extends its expiry
\* to now: the entry it leaves is still fresh at every time less than TTL later,
\* so that a next get made less than TTL after this one starts no refresh.
C33_SessionGetSlidesExpiry ==
  [][(GetCalled("session", SKey) /\ SCFresh) =>
       /\ scCache'.present
       /\ \A later \in 0..(SessionTtl - 1) : scCache'.age + later < SessionTtl]_vars

C36_InvalidateDropsEarlierRefresh ==
  [][\A c \in CacheKeys :
       LET invalidateAll == /\ c[1] = "pr" /\ pcCache' = [u \in Users |-> NoEntry]
                            /\ pcCache # pcCache'
           invalidate == lastCall' = Call("invalidate", c[1], c[2])
       IN /\ (invalidate \/ invalidateAll) =>
               \A i \in OpIds :
                 (ops'[i].svc = c[1] /\ ops'[i].key = c[2] /\ ops'[i].state = "pending")
                   => ops[i].state = "unused"
          /\ invalidate => Started(c[1], c[2]) # {}]_vars

C38_ReturnedReposWereListed ==
  dPc = "done" =>
    \A st \in dStates :
      st.hasGit =>
        /\ st.gitInfo.repo \in dRepos
        /\ ~st.hasPR =>
             \/ st.gitInfo.repo \in dFailed
             \/ \A k \in 1..Len(dListed[st.gitInfo.repo]) :
                  dListed[st.gitInfo.repo][k].branch # st.gitInfo.branch

\* text.startsWith(prefix)
StartsWith(text, prefix) ==
  Len(text) >= Len(prefix) /\ SubSeq(text, 1, Len(prefix)) = prefix

\* C35: no attach request for a session id without the configured session
\* prefix results in a tmux attach process: every process the WebSocket
\* handlers have spawned attaches to a session whose id starts with the prefix.
C35_AttachOnlyPrefixedSessions ==
  \A p \in AttachIds :
    attachProcs[p].state # "unused" => StartsWith(attachProcs[p].sessionId, SessionPrefix)

\* The attach processes handleAttach has spawned for a socket, and the most
\* recent of them.
SpawnedFor(s) ==
  {p \in AttachIds : attachProcs[p].via = "message" /\ attachProcs[p].ws = s}
LastSpawned(s) == CHOOSE p \in SpawnedFor(s) : \A q \in SpawnedFor(s) : q <= p

\* C39: while a socket of the message handler is open and the attach process
\* spawned last for it runs and has not been signalled, the socket's registry
\* entry is that process (so input is written to it); and once the socket has
\* closed, every attach process spawned for it has been signalled or has exited.
C39_RegistryFollowsLastAttach ==
  \A s \in Sockets :
    /\ (sockets[s] = [state |-> "open", handler |-> "websocket"] /\ SpawnedFor(s) # {}) =>
         LET p == LastSpawned(s)
         IN (attachProcs[p].state = "alive" /\ ~attachProcs[p].killed)
               => activeSessions[s] = p
    /\ sockets[s] = [state |-> "closed", handler |-> "websocket"] =>
         \A p \in SpawnedFor(s) : attachProcs[p].killed \/ attachProcs[p].state = "exited"

====
